---- MODULE Spec2Model ----
(***************************************************************************)
(* Client-side aggregation and derivation layer of the lab-monitoring      *)
(* dashboard:                                                              *)
(*   - PowerCapacityCard: sumForRow, getFieldValue, downloadHistoryCSV     *)
(*   - PowerChart / TemperatureChart: the grouping effects                 *)
(*   - MacrosPage: runDH3TempComparison, calculateMedian, processChartData *)
(*   - the fetch handlers of these views and of NmapScanPage               *)
(*                                                                         *)
(* Numbers.  A JavaScript value is a record [t, v]: t is "number", "NaN",  *)
(* "string" or "null"; an absent field (undefined) is a key missing from   *)
(* the DOMAIN of the object.  Capacity figures are integers counted in     *)
(* thousandths of a kW, so that toFixed(2) is a real (lossy) conversion to *)
(* hundredths.  Instants are integers counted in milliseconds, as          *)
(* Date.getTime() returns them.                                            *)
(***************************************************************************)
EXTENDS Integers, Sequences, FiniteSets, TLC

VARIABLES
    historyData,   \* PowerCapacityCard: useState historyData
    capOut,        \* the last sumForRow / getFieldValue call and its result
    csv,           \* the file produced by downloadHistoryCSV
    pData,         \* PowerChart: useState data
    pFiltered,     \* PowerChart: useState filtered
    pConfig,       \* PowerChart: useState config
    tData,         \* TemperatureChart: useState data
    tGrouped,      \* TemperatureChart: the effect's local `grouped`, after the sort
    tFiltered,     \* TemperatureChart: useState filtered
    tConfig,       \* TemperatureChart: useState config
    now,           \* MacrosPage: the instant `new Date()` returns during the run
    selectedMonths,\* MacrosPage: useState selectedMonths
    allData,       \* MacrosPage: the readings the run's fetch answered with
    monthlyData,   \* MacrosPage: useState monthlyData
    chartIn,       \* the two arguments of a processChartData call
    chartOut,      \* the series the processChartData call returned
    medianIn,      \* the caller's array handed to calculateMedian
    medianOut,     \* what calculateMedian returned
    cData,         \* PowerCapacityCard: useState data
    cLoading,      \* PowerCapacityCard: useState loading
    cError,        \* PowerCapacityCard: useState error
    historyLoading,\* PowerCapacityCard: useState historyLoading
    isHistoryOpen, \* PowerCapacityCard: useState isHistoryOpen
    pError,        \* PowerChart: useState error
    tError,        \* TemperatureChart: useState error
    mLoading,      \* MacrosPage: useState loading
    mError,        \* MacrosPage: useState error
    scanning,      \* NmapScanPage: useState scanning
    scanResult,    \* NmapScanPage: useState scanResult
    scanError,     \* NmapScanPage: useState error
    nmapAvailable, \* NmapScanPage: useState nmapAvailable
    requests,      \* the HTTP requests in flight, each with what its handler captured
    issued,        \* how many requests have been sent so far
    outcome,       \* per fetch, how its latest call ended
    log,           \* per fetch, the requests settled so far, in order of arrival
    budget         \* how many requests the views may send in all

vars == <<historyData, capOut, csv,
          pData, pFiltered, pConfig, tData, tGrouped, tFiltered, tConfig,
          now, selectedMonths, allData, monthlyData,
          chartIn, chartOut, medianIn, medianOut,
          cData, cLoading, cError, historyLoading, isHistoryOpen, pError, tError,
          mLoading, mError, scanning, scanResult, scanError, nmapAvailable,
          requests, issued, outcome, log, budget>>

capVars == <<historyData, capOut, csv>>
chartVars == <<pData, pFiltered, pConfig, tData, tGrouped, tFiltered, tConfig>>
macroVars == <<now, selectedMonths, allData, monthlyData,
               chartIn, chartOut, medianIn, medianOut>>
cardVars == <<cData, cLoading, cError, historyLoading, isHistoryOpen>>
runVars == <<mLoading, mError>>
scanVars == <<scanning, scanResult, scanError, nmapAvailable>>
netVars == <<requests, issued, outcome, log, budget>>
viewVars == <<cardVars, pError, tError, runVars, scanVars, netVars>>

-----------------------------------------------------------------------------
(* Bounds *)

\* longest capacity history explored
MaxHistory == 2

\* longest chart response explored
MaxReadings == 3

-----------------------------------------------------------------------------
(* JavaScript values *)

Num(n) == [t |-> "number", v |-> n]
NaN == [t |-> "NaN", v |-> 0]
Str == [t |-> "string", v |-> 0]
Null == [t |-> "null", v |-> 0]

\* typeof value === 'number' && !Number.isNaN(value)
IsFiniteNumber(o, k) == k \in DOMAIN o /\ o[k].t = "number"

\* a + b on numbers: NaN is absorbing
JsAdd(a, b) == IF a.t = "number" /\ b.t = "number" THEN Num(a.v + b.v) ELSE NaN

\* array.reduce(f, init), left to right
RECURSIVE Reduce(_, _, _)
Reduce(f(_, _), s, init) ==
    IF s = <<>> THEN init
    ELSE Reduce(f, Tail(s), f(init, Head(s)))

-----------------------------------------------------------------------------
(* PowerCapacityCard: the derivation helpers *)

dhKeys == <<"dh1", "dh2", "dh3", "dh4", "dh5">>
Suffixes == {"planned", "live", "max", "available"}

\* the key `${site}_${suffix}` of a row
Field(site, suffix) == <<site, suffix>>

\* variant: adds whatever the field holds, without the type and NaN test
SumForRowNoGuard(row, suffix) ==
    LET step(sum, dh) ==
            LET k == Field(dh, suffix)
            IN JsAdd(sum, IF k \in DOMAIN row.f THEN row.f[k] ELSE Num(0))
    IN Reduce(step, dhKeys, Num(0))

\* lines 102-110
sumForRow(row, suffix) ==
    LET step(sum, dh) ==
            LET k == Field(dh, suffix)
            IN JsAdd(sum, IF IsFiniteNumber(row.f, k) THEN row.f[k] ELSE Num(0))
    IN Reduce(step, dhKeys, Num(0))

\* variant: returns the field as it is, without the type and NaN test
GetFieldValueRaw(row, siteKey, suffix) ==
    IF siteKey = "total" THEN sumForRow(row, suffix)
    ELSE LET k == Field(siteKey, suffix)
         IN IF k \in DOMAIN row.f THEN row.f[k] ELSE Num(0)

\* lines 113-124
getFieldValue(row, siteKey, suffix) ==
    IF siteKey = "total" THEN sumForRow(row, suffix)
    ELSE LET k == Field(siteKey, suffix)
         IN IF IsFiniteNumber(row.f, k) THEN row.f[k] ELSE Num(0)

-----------------------------------------------------------------------------
(* PowerCapacityCard: the CSV export *)

\* Text is a sequence of tokens; the token "," is the comma character.
Comma == ","

\* A CSV cell: the text of a number with two decimals (cents: the number in
\* hundredths), the text "NaN", or free text.
FixedCell(c) == [kind |-> "fixed", cents |-> c, text |-> <<"#.##">>]
NaNCell == [kind |-> "NaN", cents |-> 0, text |-> <<"NaN">>]
TextCell(t) == [kind |-> "text", cents |-> 0, text |-> t]

\* Number.prototype.toFixed(2) of a number of thousandths, in hundredths:
\* the nearest hundredth (the inputs explored never lie exactly half-way).
ToFixed2(v) == IF v >= 0 THEN (v + 5) \div 10 ELSE -((-v + 5) \div 10)

\* x.toFixed(2) for a number x
toFixed(x) == IF x.t = "NaN" THEN NaNCell ELSE FixedCell(ToFixed2(x.v))

\* row[k] ?? 0: undefined and null become 0, everything else is kept
OrZero(row, k) ==
    IF k \notin DOMAIN row.f \/ row.f[k].t = "null" THEN Num(0) ELSE row.f[k]

\* (row[k] ?? 0).toFixed(2) throws a TypeError on a string
CellThrows(row, k) == OrZero(row, k).t = "string"

SuffixOrder == <<"planned", "live", "max", "available">>

headers ==
    << "Month",
       "DH1 Planned (kW)", "DH1 Live (kW)", "DH1 Max (kW)", "DH1 Available (kW)",
       "DH2 Planned (kW)", "DH2 Live (kW)", "DH2 Max (kW)", "DH2 Available (kW)",
       "DH3 Planned (kW)", "DH3 Live (kW)", "DH3 Max (kW)", "DH3 Available (kW)",
       "DH4 Planned (kW)", "DH4 Live (kW)", "DH4 Max (kW)", "DH4 Available (kW)",
       "DH5 Planned (kW)", "DH5 Live (kW)", "DH5 Max (kW)", "DH5 Available (kW)",
       "Total Planned (kW)", "Total Live (kW)", "Total Max (kW)", "Total Available (kW)",
       "Auto Saved", "Saved Date" >>

\* the four cells of one data hall, in the order of lines 149-153
ZoneCells(row, dh) ==
    [j \in 1..4 |-> toFixed(OrZero(row, Field(dh, SuffixOrder[j])))]

\* total_planned.toFixed(2), ... of line 154
TotalCells(row) == [j \in 1..4 |-> toFixed(sumForRow(row, SuffixOrder[j]))]

\* variant: a data row without its month cell
CsvRowNoMonth(row) ==
    ZoneCells(row, "dh1") \o ZoneCells(row, "dh2") \o ZoneCells(row, "dh3")
        \o ZoneCells(row, "dh4") \o ZoneCells(row, "dh5")
        \o TotalCells(row)
        \o << TextCell(IF row.auto_saved = "true" THEN <<"Yes">> ELSE <<"No">>),
              TextCell(row.saved_date) >>

\* the array returned by the map callback of lines 141-158
CsvRow(row) ==
    << TextCell(row.month) >>
        \o ZoneCells(row, "dh1") \o ZoneCells(row, "dh2") \o ZoneCells(row, "dh3")
        \o ZoneCells(row, "dh4") \o ZoneCells(row, "dh5")
        \o TotalCells(row)
        \o << TextCell(IF row.auto_saved = "true" THEN <<"Yes">> ELSE <<"No">>),
              TextCell(row.saved_date) >>

\* the map callback throws when a zone field holds a string
CsvRowThrows(row) ==
    \E d \in 1..5, j \in 1..4 : CellThrows(row, Field(dhKeys[d], SuffixOrder[j]))

\* cells.join(','): the cells' text with a comma between neighbours
RECURSIVE Join(_)
Join(cells) ==
    IF cells = <<>> THEN <<>>
    ELSE IF Len(cells) = 1 THEN Head(cells)
    ELSE Head(cells) \o <<Comma>> \o Join(Tail(cells))

\* the number of comma-separated fields of a line of text
FieldCount(line) == 1 + Cardinality({i \in 1..Len(line) : line[i] = Comma})

NoFile == [status |-> "none", rows |-> <<>>, content |-> <<>>]

\* row.join(','): one line of the file
CsvLine(cells) == Join([c \in 1..Len(cells) |-> cells[c].text])

\* lines 141-163: rows, then csvContent as a sequence of lines
CsvFile(history) ==
    LET rows == [i \in 1..Len(history) |-> CsvRow(history[i])]
    IN [status |-> "saved",
        rows |-> rows,
        content |-> << Join([i \in 1..Len(headers) |-> <<headers[i]>>]) >>
                       \o [i \in 1..Len(rows) |-> CsvLine(rows[i])]]

-----------------------------------------------------------------------------
(* Capacity rows explored *)

Zones == {dhKeys[i] : i \in 1..Len(dhKeys)}
ZoneIndex(dh) == CHOOSE i \in 1..Len(dhKeys) : dhKeys[i] = dh
SuffixIndex(sfx) == CHOOSE j \in 1..4 : SuffixOrder[j] = sfx

\* site keys a caller may pass: the five zones, the synthetic total and a
\* key that names no zone
SiteKeys == Zones \cup {"total", "dh6"}

\* A well-formed row: every zone figure a whole number of hundredths, all
\* different, dh5's available negative (over capacity).
BaseFields ==
    [k \in Zones \X Suffixes |->
        IF k = <<"dh5", "available">> THEN Num(-2500)
        ELSE Num(100000 * ZoneIndex(k[1]) + 1010 * SuffixIndex(k[2]))]

\* figures with a third decimal: 0.004 kW in dh1 and dh2, 1 kW elsewhere
FractionFields ==
    [k \in Zones \X Suffixes |-> IF k[1] \in {"dh1", "dh2"} THEN Num(4) ELSE Num(1000)]

Without(f, k) == [x \in DOMAIN f \ {k} |-> f[x]]
With(f, k, val) == [x \in DOMAIN f \cup {k} |-> IF x = k THEN val ELSE f[x]]

IsoMonth == <<"2024-03">>
IsoDate == <<"2024-04-01">>
LongDate == <<"Apr 1", Comma, " 2024">>

MkRow(f) == [month |-> IsoMonth, f |-> f, auto_saved |-> "true", saved_date |-> IsoDate]

\* what a zone field holds when it is not a plain number
Malformed == {NaN, Str, Null}

\* every row obtained from the well-formed row by dropping or spoiling one field
SpoiledRows(keys) ==
    {MkRow(Without(BaseFields, k)) : k \in keys}
        \cup {MkRow(With(BaseFields, k, m)) : k \in keys, m \in Malformed}

\* rows carrying fields the interface does not declare
ExtraRows ==
    { MkRow(With(BaseFields, <<"dh6", "planned">>, Num(7000))),
      MkRow(With(BaseFields, <<"total", "planned">>, Num(99000))),
      MkRow(With(BaseFields, <<"dh6", "live">>, NaN)) }

\* rows for sumForRow / getFieldValue
AllRows ==
    {MkRow(BaseFields), MkRow(FractionFields)}
        \cup SpoiledRows(Zones \X Suffixes) \cup ExtraRows

Diagonal ==
    { <<"dh1", "planned">>, <<"dh2", "live">>, <<"dh3", "max">>,
      <<"dh4", "available">>, <<"dh5", "planned">> }

\* rows for the export: one spoiled field per zone, and the optional columns
HistoryRows ==
    {MkRow(BaseFields), MkRow(FractionFields)}
        \cup SpoiledRows(Diagonal)
        \cup { [MkRow(BaseFields) EXCEPT !.auto_saved = "false", !.saved_date = LongDate],
               [MkRow(BaseFields) EXCEPT !.auto_saved = "absent", !.saved_date = <<>>] }

SeqsUpTo(S, n) == UNION {[1..m -> S] : m \in 0..n}

-----------------------------------------------------------------------------
(* PowerCapacityCard: operations *)

NoCall == [op |-> "none", row |-> 0, siteKey |-> "", suffix |-> "", result |-> Num(0)]

CapIdle == historyData = <<>> /\ capOut = NoCall /\ csv = NoFile

\* MacrosPage as mounted: nothing run, "3" selected (line 33)
NoCurve == [hot |-> <<>>, cold |-> <<>>]
NoSeries == [called |-> FALSE, series |-> <<>>]
NoMedian == [called |-> FALSE, given |-> <<>>, result |-> [t |-> "number", n |-> 0, d |-> 1]]
MacroIdle ==
    /\ now = <<0, 0>> /\ selectedMonths = 3 /\ allData = <<>> /\ monthlyData = <<>>
    /\ chartIn = NoCurve /\ chartOut = NoSeries
    /\ medianIn = <<>> /\ medianOut = NoMedian

\* an error state or a message field: undefined, or a string (maybe empty)
NoMsg == [t |-> "undefined", s |-> ""]
Msg(s) == [t |-> "string", s |-> s]

Fetches == {"capacity", "history", "power", "temperature", "macro", "scan", "nmap"}

\* every view as constructed by its useState calls, nothing sent yet
NoSnapshot == "current: null, previous: null"
NoScanResult == "null"
MaxFetches == 2
MaxTimerFetches == 3

ViewsMounted ==
    /\ cData = NoSnapshot /\ cLoading = TRUE /\ cError = NoMsg
    /\ historyLoading = FALSE /\ isHistoryOpen = FALSE
    /\ pError = NoMsg /\ tError = NoMsg
    /\ mLoading = FALSE /\ mError = NoMsg
    /\ scanning = FALSE /\ scanResult = NoScanResult /\ scanError = NoMsg
    /\ nmapAvailable = "null"
    /\ requests = {} /\ issued = 0
    /\ outcome = [f \in Fetches |-> "none"]
    /\ log = [f \in Fetches |-> <<>>]

ViewIdle == ViewsMounted /\ budget = MaxFetches

ChartIdle ==
    /\ pData = <<>> /\ pFiltered = <<>> /\ pConfig = {}
    /\ tData = <<>> /\ tGrouped = <<>> /\ tFiltered = <<>> /\ tConfig = {}

\* sumForRow(historyData[i], suffix)
SumForRow(i, suffix) ==
    /\ capOut' = [op |-> "sumForRow", row |-> i, siteKey |-> "", suffix |-> suffix,
                  result |-> sumForRow(historyData[i], suffix)]
    /\ UNCHANGED <<historyData, csv>>
    /\ UNCHANGED chartVars
    /\ UNCHANGED macroVars
    /\ UNCHANGED viewVars

\* getFieldValue(historyData[i], siteKey, suffix)
GetFieldValue(i, siteKey, suffix) ==
    /\ capOut' = [op |-> "getFieldValue", row |-> i, siteKey |-> siteKey, suffix |-> suffix,
                  result |-> getFieldValue(historyData[i], siteKey, suffix)]
    /\ UNCHANGED <<historyData, csv>>
    /\ UNCHANGED chartVars
    /\ UNCHANGED macroVars
    /\ UNCHANGED viewVars

\* downloadHistoryCSV: nothing on an empty history; a TypeError of the map
\* callback leaves the handler before any file is made
downloadHistoryCSV ==
    /\ csv' = IF Len(historyData) = 0 THEN [NoFile EXCEPT !.status = "skipped"]
              ELSE IF \E i \in 1..Len(historyData) : CsvRowThrows(historyData[i])
                   THEN [NoFile EXCEPT !.status = "threw"]
              ELSE CsvFile(historyData)
    /\ UNCHANGED <<historyData, capOut>>
    /\ UNCHANGED chartVars
    /\ UNCHANGED macroVars
    /\ UNCHANGED viewVars

\* the helpers applied to one row
InitHelpers ==
    /\ historyData \in {<<r>> : r \in AllRows}
    /\ capOut = NoCall
    /\ csv = NoFile
    /\ ChartIdle
    /\ MacroIdle
    /\ ViewIdle

NextHelpers ==
    \/ \E i \in 1..Len(historyData), sfx \in Suffixes : SumForRow(i, sfx)
    \/ \E i \in 1..Len(historyData), k \in SiteKeys, sfx \in Suffixes : GetFieldValue(i, k, sfx)

SpecHelpers == InitHelpers /\ [][NextHelpers]_vars

\* the export applied to a loaded history
InitCsv ==
    /\ historyData \in SeqsUpTo(HistoryRows, MaxHistory)
    /\ capOut = NoCall
    /\ csv = NoFile
    /\ ChartIdle
    /\ MacroIdle
    /\ ViewIdle

NextCsv == downloadHistoryCSV

SpecCsv == InitCsv /\ [][NextCsv]_vars

-----------------------------------------------------------------------------
(* Claims about the capacity helpers *)

\* the zone's figure as the claim counts it: 0 unless a non-NaN number
ZoneFigure(row, dh, sfx) ==
    IF <<dh, sfx>> \in DOMAIN row.f /\ row.f[<<dh, sfx>>].t = "number"
    THEN row.f[<<dh, sfx>>].v ELSE 0

FiveZoneSum(row, sfx) ==
    ZoneFigure(row, "dh1", sfx) + ZoneFigure(row, "dh2", sfx) + ZoneFigure(row, "dh3", sfx)
        + ZoneFigure(row, "dh4", sfx) + ZoneFigure(row, "dh5", sfx)

\* C1: sumForRow(row, f) is the arithmetic sum of dh1_f..dh5_f with every
\* absent, non-numeric or NaN figure counted as 0, and
\* getFieldValue(row, 'total', f) is that same sum.
C1_SumAcrossZones ==
    /\ capOut.op = "sumForRow" =>
          capOut.result = Num(FiveZoneSum(historyData[capOut.row], capOut.suffix))
    /\ (capOut.op = "getFieldValue" /\ capOut.siteKey = "total") =>
          /\ capOut.result = Num(FiveZoneSum(historyData[capOut.row], capOut.suffix))
          /\ capOut.result = sumForRow(historyData[capOut.row], capOut.suffix)

\* a total was asked of a row one of whose figures for that metric is NaN
C1_Witness ==
    /\ capOut.op = "getFieldValue" /\ capOut.siteKey = "total"
    /\ \E dh \in Zones :
          /\ <<dh, capOut.suffix>> \in DOMAIN historyData[capOut.row].f
          /\ historyData[capOut.row].f[<<dh, capOut.suffix>>] = NaN
    /\ capOut.result.v > 0

\* C2: for a site key other than 'total', getFieldValue returns the raw
\* {siteKey}_{field} value when that is a non-NaN number and 0 otherwise
\* (absent, non-numeric, NaN, or a key naming no zone); the result is always
\* a number, never an error.
C2_RawOrZero ==
    (capOut.op = "getFieldValue" /\ capOut.siteKey # "total") =>
        LET row == historyData[capOut.row]
            k == <<capOut.siteKey, capOut.suffix>>
        IN /\ capOut.result.t = "number"
           /\ (k \in DOMAIN row.f /\ row.f[k].t = "number") => capOut.result = row.f[k]
           /\ ~(k \in DOMAIN row.f /\ row.f[k].t = "number") => capOut.result = Num(0)

\* a malformed figure of a real zone was read as 0
C2_Witness ==
    /\ capOut.op = "getFieldValue" /\ capOut.siteKey \in Zones
    /\ <<capOut.siteKey, capOut.suffix>> \in DOMAIN historyData[capOut.row].f
    /\ historyData[capOut.row].f[<<capOut.siteKey, capOut.suffix>>] \in Malformed
    /\ capOut.result = Num(0)

-----------------------------------------------------------------------------
(* Claims about the CSV export *)

ColumnOf(label) == CHOOSE c \in 1..Len(headers) : headers[c] = label
ZoneLabel == [dh \in Zones |->
                 CASE dh = "dh1" -> "DH1" [] dh = "dh2" -> "DH2" [] dh = "dh3" -> "DH3"
                   [] dh = "dh4" -> "DH4" [] dh = "dh5" -> "DH5"]
MetricLabel == [sfx \in Suffixes |->
                 CASE sfx = "planned" -> "Planned (kW)" [] sfx = "live" -> "Live (kW)"
                   [] sfx = "max" -> "Max (kW)" [] sfx = "available" -> "Available (kW)"]

\* the cell of data row r under the header "<site> <metric>"
CellAt(r, site, sfx) == csv.rows[r][ColumnOf(site \o " " \o MetricLabel[sfx])]

Exported == csv.status \in {"saved", "threw"}

\* C3: the export emits one data row per history entry, in history order,
\* and in every data row each total cell equals the sum of the row's five
\* zone cells for the same metric, whatever the history holds.
C3_TotalsEqualZoneCells ==
    Exported =>
        /\ csv.status = "saved"
        /\ Len(csv.rows) = Len(historyData)
        /\ \A r \in 1..Len(csv.rows) :
              /\ csv.rows[r][ColumnOf("Month")].text = historyData[r].month
              /\ \A sfx \in Suffixes :
                    /\ CellAt(r, "Total", sfx).kind = "fixed"
                    /\ \A dh \in Zones : CellAt(r, ZoneLabel[dh], sfx).kind = "fixed"
                    /\ CellAt(r, "Total", sfx).cents =
                          CellAt(r, "DH1", sfx).cents + CellAt(r, "DH2", sfx).cents
                            + CellAt(r, "DH3", sfx).cents + CellAt(r, "DH4", sfx).cents
                            + CellAt(r, "DH5", sfx).cents

\* C4 as stated: a header of exactly 26 columns, and every data row with one
\* cell per header column.
C4_Header26 ==
    csv.status = "saved" =>
        /\ FieldCount(csv.content[1]) = 26
        /\ \A r \in 1..Len(csv.rows) :
              FieldCount(csv.content[r + 1]) = FieldCount(csv.content[1])

CommasIn(text) == Cardinality({i \in 1..Len(text) : text[i] = Comma})

\* C4 amended: the header has exactly 27 columns (Month, 5 zones x 4
\* metrics, 4 totals, auto-saved, saved-date) whatever the history holds;
\* every data row is built from exactly 27 cells, one per header column; the
\* cells are joined by commas unescaped, so a row's line has 27 fields plus
\* one per comma in its month and saved-date text.
C4_Header27 ==
    csv.status = "saved" =>
        /\ Len(csv.content) = Len(historyData) + 1
        /\ FieldCount(csv.content[1]) = 27
        /\ \A r \in 1..Len(csv.rows) :
              /\ Len(csv.rows[r]) = 27
              /\ FieldCount(csv.content[r + 1]) =
                    27 + CommasIn(historyData[r].month) + CommasIn(historyData[r].saved_date)

\* a two-row history was exported whose second row has a comma in its date
C4_Witness ==
    /\ csv.status = "saved"
    /\ Len(historyData) = 2
    /\ historyData[2].saved_date = LongDate
    /\ FieldCount(csv.content[3]) = 28
    /\ FieldCount(csv.content[2]) = 27

-----------------------------------------------------------------------------
(* PowerChart / TemperatureChart: the grouping effects *)

\* A reading is [created, location, reading].  `created` stands for the ISO
\* string of an instant, written here as the instant's milliseconds: equal
\* strings are equal instants.  A bucket is a JavaScript object: a function
\* from its keys ("created" and the location names) to their values.

\* grouped.find((g) => g.created === created): the index of the first match, 0 if none
FindBucket(grouped, created) ==
    IF \E i \in 1..Len(grouped) : grouped[i]["created"] = created
    THEN CHOOSE i \in 1..Len(grouped) :
            /\ grouped[i]["created"] = created
            /\ \A j \in 1..(i - 1) : grouped[j]["created"] # created
    ELSE 0

\* variant of the forEach body: an earlier value of the location is kept
GroupEntryKeepFirst(grouped, created, entry) ==
    LET i == FindBucket(grouped, created)
        g == IF i = 0 THEN Append(grouped, [k \in {"created"} |-> created]) ELSE grouped
        j == IF i = 0 THEN Len(g) ELSE i
    IN IF entry.location \in DOMAIN g[j] THEN g
       ELSE [g EXCEPT ![j] = With(g[j], entry.location, entry.reading)]

\* the body of data.forEach for a bucket key `created`:
\* find or push the bucket, then gp[entry.location] = entry.reading
GroupEntry(grouped, created, entry) ==
    LET i == FindBucket(grouped, created)
        g == IF i = 0 THEN Append(grouped, [k \in {"created"} |-> created]) ELSE grouped
        j == IF i = 0 THEN Len(g) ELSE i
    IN [g EXCEPT ![j] = With(g[j], entry.location, entry.reading)]

\* if (!cfg[entry.location]) cfg[entry.location] = { label: entry.location }
\* (the config object, as the set of its keys)
ConfigOf(data) ==
    LET step(cfg, entry) == cfg \cup {entry.location}
    IN Reduce(step, data, {})

\* grouped.sort((a, b) => time(a) - time(b)): stable insertion by instant
RECURSIVE InsertByCreated(_, _)
InsertByCreated(sorted, g) ==
    IF sorted = <<>> THEN <<g>>
    ELSE IF g["created"] < Head(sorted)["created"] THEN <<g>> \o sorted
    ELSE <<Head(sorted)>> \o InsertByCreated(Tail(sorted), g)

\* variant: the buckets left in encounter order
NoSort(grouped) == grouped

SortByCreated(grouped) ==
    LET step(sorted, g) == InsertByCreated(sorted, g)
    IN Reduce(step, grouped, <<>>)

\* variant: power buckets sorted by instant
PowerGroupedSorted(data) ==
    LET step(grouped, entry) == GroupEntry(grouped, entry.created, entry)
    IN SortByCreated(Reduce(step, data, <<>>))

\* PowerChart, lines 390-403: grouped
PowerGrouped(data) ==
    LET step(grouped, entry) == GroupEntry(grouped, entry.created, entry)
    IN Reduce(step, data, <<>>)

MinuteMs == 60 * 1000

\* normalizeTime: d.setSeconds(0, 0); d.toISOString()
normalizeTime(created) == created - (created % MinuteMs)

\* variant: first write wins
TempGroupedKeepFirst(data) ==
    LET step(grouped, entry) ==
            GroupEntryKeepFirst(grouped, normalizeTime(entry.created), entry)
    IN SortByCreated(Reduce(step, data, <<>>))

\* TemperatureChart, lines 554-581: grouped, sorted
TempGrouped(data) ==
    LET step(grouped, entry) == GroupEntry(grouped, normalizeTime(entry.created), entry)
    IN SortByCreated(Reduce(step, data, <<>>))

WindowMs == 30 * 60 * 1000

\* variant: the whole past of the point, no lower end
WindowPointsUnbounded(grouped, point) ==
    SelectSeq(grouped, LAMBDA p : p["created"] <= point["created"])

\* lines 584-591: windowStart and windowPoints
WindowPoints(grouped, point) ==
    LET windowStart == point["created"] - WindowMs
    IN SelectSeq(grouped, LAMBDA p : /\ p["created"] >= windowStart
                                     /\ p["created"] <= point["created"])

\* vals.reduce((a, b) => a + b, 0) / vals.length, kept as the exact quotient sum / n
Mean(vals) ==
    LET step(a, b) == a + b
    IN [sum |-> Reduce(step, vals, 0), n |-> Len(vals)]

\* variant: every configured location gets a value, a bucket without it counts as 0
AveragedPointZeroFill(grouped, cfg, point) ==
    LET wp == WindowPoints(grouped, point)
        vals(loc) == [i \in 1..Len(wp) |-> IF loc \in DOMAIN wp[i] THEN wp[i][loc] ELSE 0]
    IN [k \in {"created"} \cup cfg |->
            IF k = "created" THEN point["created"] ELSE Mean(vals(k))]

\* lines 593-606: averagedPoint
AveragedPoint(grouped, cfg, point) ==
    LET wp == WindowPoints(grouped, point)
        \* windowPoints.map((p) => p[location]).filter((v) => v !== undefined)
        present(loc) == SelectSeq(wp, LAMBDA p : loc \in DOMAIN p)
        vals(loc) == [i \in 1..Len(present(loc)) |-> present(loc)[i][loc]]
        kept == {loc \in cfg : Len(vals(loc)) # 0}
    IN [k \in {"created"} \cup kept |->
            IF k = "created" THEN point["created"] ELSE Mean(vals(k))]

\* lines 583-607: averaged
Averaged(grouped, cfg) ==
    [i \in 1..Len(grouped) |-> AveragedPoint(grouped, cfg, grouped[i])]

-----------------------------------------------------------------------------
(* Readings explored *)

Locations == {"rack1", "rack2"}

\* 00:00:00, 00:00:30 (the same minute), 00:30:00 (exactly 30 minutes after
\* the first minute) and 00:31:00
Instants == {0, 30 * 1000, 30 * MinuteMs, 31 * MinuteMs}

ReadingValues == {10, 30}

Readings == [created : Instants, location : Locations, reading : ReadingValues]

-----------------------------------------------------------------------------
(* PowerChart / TemperatureChart: operations *)

\* an effect that sets the configuration and leaves the series as it was
PowerGroupEffectConfigOnly ==
    /\ pConfig' = ConfigOf(pData)
    /\ UNCHANGED <<pFiltered, pData, tData, tGrouped, tFiltered, tConfig>>
    /\ UNCHANGED capVars
    /\ UNCHANGED macroVars
    /\ UNCHANGED viewVars

\* PowerChart: useEffect(..., [data]), lines 389-406
PowerGroupEffect ==
    /\ pFiltered' = PowerGrouped(pData)
    /\ pConfig' = ConfigOf(pData)
    /\ UNCHANGED <<pData, tData, tGrouped, tFiltered, tConfig>>
    /\ UNCHANGED capVars
    /\ UNCHANGED macroVars
    /\ UNCHANGED viewVars

\* TemperatureChart: useEffect(..., [data]), lines 553-611
TempGroupEffect ==
    /\ tGrouped' = TempGrouped(tData)
    /\ tFiltered' = Averaged(TempGrouped(tData), ConfigOf(tData))
    /\ tConfig' = ConfigOf(tData)
    /\ UNCHANGED <<tData, pData, pFiltered, pConfig>>
    /\ UNCHANGED capVars
    /\ UNCHANGED macroVars
    /\ UNCHANGED viewVars

\* both charts right after setData(response.data) of the same response,
\* before their effects have run
InitCharts ==
    /\ \E d \in SeqsUpTo(Readings, MaxReadings) : pData = d /\ tData = d
    /\ pFiltered = <<>> /\ pConfig = {}
    /\ tGrouped = <<>> /\ tFiltered = <<>> /\ tConfig = {}
    /\ historyData = <<>> /\ capOut = NoCall /\ csv = NoFile
    /\ MacroIdle
    /\ ViewIdle

NextCharts == PowerGroupEffect \/ TempGroupEffect

SpecCharts == InitCharts /\ [][NextCharts]_vars

-----------------------------------------------------------------------------
(* Claims about the grouping effects *)

Keys(bucket) == DOMAIN bucket \ {"created"}

\* the index in `data` of the first reading whose bucket key is c
FirstAt(data, key(_), c) ==
    CHOOSE i \in 1..Len(data) :
        key(data[i].created) = c /\ \A j \in 1..(i - 1) : key(data[j].created) # c

\* the index in `data` of the last reading of `loc` whose bucket key is c
LastOf(data, key(_), c, loc) ==
    CHOOSE i \in 1..Len(data) :
        /\ key(data[i].created) = c /\ data[i].location = loc
        /\ \A j \in (i + 1)..Len(data) :
              ~(key(data[j].created) = c /\ data[j].location = loc)

Exact(t) == t
MinuteOf(t) == (t \div 60000) * 60000

PowerGrouping == pFiltered # <<>>
TempGrouping == tGrouped # <<>>

\* C5: power mode yields exactly one bucket per distinct `created` of the
\* input, in the order the timestamps are first met (no sorting), and each
\* bucket's location keys are exactly the locations that have a reading with
\* that timestamp.
C5_PowerBuckets ==
    PowerGrouping =>
        /\ \A i, j \in 1..Len(pFiltered) :
              pFiltered[i]["created"] = pFiltered[j]["created"] => i = j
        /\ {pFiltered[i]["created"] : i \in 1..Len(pFiltered)}
              = {pData[k].created : k \in 1..Len(pData)}
        /\ \A i, j \in 1..Len(pFiltered) :
              i < j => FirstAt(pData, Exact, pFiltered[i]["created"])
                          < FirstAt(pData, Exact, pFiltered[j]["created"])
        /\ \A i \in 1..Len(pFiltered) :
              Keys(pFiltered[i]) =
                  {pData[k].location : k \in {x \in 1..Len(pData) :
                                                pData[x].created = pFiltered[i]["created"]}}

\* three buckets came out in an order that is not the order of their instants
C5_Witness ==
    /\ Len(pFiltered) = 3
    /\ pFiltered[1]["created"] > pFiltered[2]["created"]
    /\ pFiltered[2]["created"] < pFiltered[3]["created"]
    /\ \E i \in 1..3 : Cardinality(Keys(pFiltered[i])) = 1

\* C6: in both modes a bucket maps a location to one value, and when several
\* readings share bucket key and location the bucket holds the value of the
\* one that comes last in the input.
C6_LastWriteWins ==
    /\ PowerGrouping =>
          \A i \in 1..Len(pFiltered) : \A loc \in Keys(pFiltered[i]) :
              pFiltered[i][loc] =
                  pData[LastOf(pData, Exact, pFiltered[i]["created"], loc)].reading
    /\ TempGrouping =>
          \A i \in 1..Len(tGrouped) : \A loc \in Keys(tGrouped[i]) :
              tGrouped[i][loc] =
                  tData[LastOf(tData, MinuteOf, tGrouped[i]["created"], loc)].reading

\* both charts grouped an input in which one location reports twice in the
\* same minute with different values, at different exact instants
C6_Witness ==
    /\ PowerGrouping /\ TempGrouping
    /\ \E a, b \in 1..Len(tData) :
          /\ a < b
          /\ tData[a].location = tData[b].location
          /\ MinuteOf(tData[a].created) = MinuteOf(tData[b].created)
          /\ tData[a].created # tData[b].created
          /\ tData[a].reading # tData[b].reading
    /\ \E a, b \in 1..Len(pData) :
          /\ a < b
          /\ pData[a].location = pData[b].location
          /\ pData[a].created = pData[b].created
          /\ pData[a].reading # pData[b].reading

\* C7: temperature mode keys buckets by the minute: two readings share a
\* bucket iff they lie in the same minute, there is exactly one bucket per
\* distinct minute, and the output is strictly ascending by instant for
\* every input order.
C7_MinuteBucketsAscending ==
    TempGrouping =>
        /\ Len(tFiltered) = Len(tGrouped)
        /\ \A i \in 1..Len(tFiltered) : tFiltered[i]["created"] = tGrouped[i]["created"]
        /\ \A i, j \in 1..Len(tFiltered) :
              i < j => tFiltered[i]["created"] < tFiltered[j]["created"]
        /\ {tFiltered[i]["created"] : i \in 1..Len(tFiltered)}
              = {MinuteOf(tData[k].created) : k \in 1..Len(tData)}
        /\ \A a, b \in 1..Len(tData) :
              (MinuteOf(tData[a].created) = MinuteOf(tData[b].created))
                <=> \E i \in 1..Len(tGrouped) :
                       /\ tGrouped[i]["created"] = MinuteOf(tData[a].created)
                       /\ tGrouped[i]["created"] = MinuteOf(tData[b].created)

\* readings arrived newest first, two of them in one minute, and were put in
\* ascending order
C7_Witness ==
    /\ Len(tData) = 3 /\ Len(tFiltered) = 2
    /\ tData[1].created > tData[2].created
    /\ tData[2].created > tData[3].created
    /\ tFiltered[1]["created"] < tFiltered[2]["created"]

\* the minutes in which `loc` has a reading
SampleMinutes(data, loc) ==
    {MinuteOf(data[k].created) : k \in {x \in 1..Len(data) : data[x].location = loc}}

\* the value the bucket of minute m holds for loc
BucketValue(data, m, loc) == data[LastOf(data, MinuteOf, m, loc)].reading

RECURSIVE SumOver(_, _, _)
SumOver(S, data, loc) ==
    IF S = {} THEN 0
    ELSE LET m == CHOOSE x \in S : TRUE
         IN BucketValue(data, m, loc) + SumOver(S \ {m}, data, loc)

\* `avg` is the arithmetic mean of loc's bucket values over the minutes S
IsMeanOver(avg, S, data, loc) ==
    /\ S # {} /\ avg.n > 0
    /\ avg.sum * Cardinality(S) = SumOver(S, data, loc) * avg.n

TempAveraging == tFiltered # <<>>

\* C8 as stated: the averaged value at instant T is the mean over exactly the
\* buckets with T - 30 min < t <= T; a bucket exactly 30 minutes before T
\* does not contribute.
C8_WindowLeftOpen ==
    TempAveraging =>
        \A i \in 1..Len(tFiltered) : \A loc \in Keys(tFiltered[i]) :
            LET T == tFiltered[i]["created"]
                S == {m \in SampleMinutes(tData, loc) : T - 30 * 60000 < m /\ m <= T}
            IN IsMeanOver(tFiltered[i][loc], S, tData, loc)

\* C8 amended: the averaged value at instant T is the mean of the location's
\* bucket values over exactly the buckets with T - 30 min <= t <= T (both
\* ends inclusive); a bucket exactly 30 minutes before T does contribute.
C8_WindowClosed ==
    TempAveraging =>
        \A i \in 1..Len(tFiltered) : \A loc \in Keys(tFiltered[i]) :
            LET T == tFiltered[i]["created"]
                S == {m \in SampleMinutes(tData, loc) : T - 30 * 60000 <= m /\ m <= T}
            IN /\ IsMeanOver(tFiltered[i][loc], S, tData, loc)
               /\ tFiltered[i][loc].n = Cardinality(S)

\* a location has different values exactly 30 minutes apart, and a third
\* reading 31 minutes before the last bucket stays out of that bucket's mean
C8_Witness ==
    /\ TempAveraging
    /\ \E i, j, l \in 1..Len(tFiltered) : \E loc \in Locations :
          /\ tFiltered[j]["created"] = tFiltered[i]["created"] + 30 * 60000
          /\ tFiltered[l]["created"] = tFiltered[i]["created"] + 31 * 60000
          /\ loc \in Keys(tGrouped[i]) /\ loc \in Keys(tGrouped[j])
          /\ tGrouped[i][loc] # tGrouped[j][loc]
          /\ tFiltered[j][loc].n = 2
          /\ tFiltered[l][loc].n = 1

\* C9: for a location with exactly one reading in the whole input, at time
\* T, the averaged value in the bucket for T equals that reading exactly,
\* whatever other locations and buckets are present.
C9_SingleReading ==
    TempAveraging =>
        \A k \in 1..Len(tData) :
            (\A x \in 1..Len(tData) : tData[x].location = tData[k].location => x = k) =>
                \E i \in 1..Len(tFiltered) :
                    /\ tFiltered[i]["created"] = MinuteOf(tData[k].created)
                    /\ tData[k].location \in Keys(tFiltered[i])
                    /\ tFiltered[i][tData[k].location].sum
                          = tData[k].reading * tFiltered[i][tData[k].location].n

\* a location reported once, in a bucket that follows, within its window,
\* a bucket of the other location only
C9_Witness ==
    /\ TempAveraging /\ Len(tData) = 3
    /\ \E k \in 1..3 :
          /\ \A x \in 1..3 : x # k => tData[x].location # tData[k].location
          /\ \E x \in 1..3 :
                /\ MinuteOf(tData[x].created) < MinuteOf(tData[k].created)
                /\ MinuteOf(tData[x].created) >= MinuteOf(tData[k].created) - 30 * 60000
          /\ \E i \in 1..Len(tFiltered) :
                /\ tFiltered[i]["created"] = MinuteOf(tData[k].created)
                /\ tFiltered[i][tData[k].location] = [sum |-> tData[k].reading, n |-> 1]

\* C10: an averaged bucket has a key for a location iff the location has at
\* least one sample in the bucket's trailing window (the window the code
\* draws: T - 30 min <= t <= T); otherwise the key is absent, not zero.
C10_AbsentWithoutSample ==
    TempAveraging =>
        \A i \in 1..Len(tFiltered) : \A loc \in Locations :
            LET T == tFiltered[i]["created"]
            IN (loc \in Keys(tFiltered[i]))
                  <=> (\E k \in 1..Len(tData) :
                          /\ tData[k].location = loc
                          /\ T - 30 * 60000 <= MinuteOf(tData[k].created)
                          /\ MinuteOf(tData[k].created) <= T)

\* a configured location is missing from one averaged bucket (its only
\* sample is older than the window) and from another (its sample is later)
C10_Witness ==
    /\ TempAveraging
    /\ \E i, j \in 1..Len(tFiltered) : \E loc \in tConfig :
          /\ i < j
          /\ loc \notin Keys(tFiltered[i])
          /\ loc \in Keys(tFiltered[j])
    /\ \E i, j \in 1..Len(tFiltered) : \E loc \in tConfig :
          /\ i < j
          /\ loc \in Keys(tFiltered[i])
          /\ loc \notin Keys(tFiltered[j])

-----------------------------------------------------------------------------
(* MacrosPage (frontend/app/macros/page.tsx): the local civil calendar of  *)
(* the Date object.  An instant of this view is a pair <<day, ms>>: the    *)
(* count of local days since 1 January 2022 and the milliseconds into that *)
(* day; the view reads every Date through its local-time getters.          *)

HourMs == 60 * MinuteMs
DayMs == 24 * HourMs

IsLeap(y) == (y % 4 = 0 /\ y % 100 # 0) \/ y % 400 = 0
DaysInMonth(y, m) ==
    IF m = 1 THEN (IF IsLeap(y) THEN 29 ELSE 28)
    ELSE IF m \in {3, 5, 8, 10} THEN 30 ELSE 31

RECURSIVE DaysBeforeYear(_)
DaysBeforeYear(y) ==
    IF y <= 2022 THEN 0
    ELSE DaysBeforeYear(y - 1) + (IF IsLeap(y - 1) THEN 366 ELSE 365)

RECURSIVE DaysBeforeMonth(_, _)
DaysBeforeMonth(y, m) ==
    IF m = 0 THEN 0 ELSE DaysBeforeMonth(y, m - 1) + DaysInMonth(y, m - 1)

\* new Date(y, m, d, hh, mi, ss): months are 0-based; a month outside 0..11
\* carries into the year and day 0 is the day before the first
JsDate(y, m, d, hh, mi, ss) ==
    LET yy == y + (m \div 12)
        mm == m % 12
    IN <<DaysBeforeYear(yy) + DaysBeforeMonth(yy, mm) + d - 1,
         hh * HourMs + mi * MinuteMs + ss * 1000>>

\* a <= b and a < b on instants, as the comparison of two Dates
NotAfter(a, b) == a[1] < b[1] \/ (a[1] = b[1] /\ a[2] <= b[2])
Before(a, b) == a[1] < b[1] \/ (a[1] = b[1] /\ a[2] < b[2])

Years == 2022..2026
getFullYear(t) ==
    CHOOSE y \in Years : DaysBeforeYear(y) <= t[1] /\ t[1] < DaysBeforeYear(y + 1)
getMonth(t) ==
    LET y == getFullYear(t)
    IN CHOOSE m \in 0..11 :
           /\ JsDate(y, m, 1, 0, 0, 0)[1] <= t[1]
           /\ t[1] < JsDate(y, m + 1, 1, 0, 0, 0)[1]
getDate(t) == t[1] - JsDate(getFullYear(t), getMonth(t), 1, 0, 0, 0)[1] + 1
getHours(t) == t[2] \div HourMs

MonthNames == <<"January", "February", "March", "April", "May", "June", "July",
                "August", "September", "October", "November", "December">>
\* toLocaleDateString('en-US', { month: 'long', year: 'numeric' })
monthLabel(t) == <<MonthNames[getMonth(t) + 1], getFullYear(t)>>

\* Date.toISOString and the `new Date(string)` that reads it back: the text
\* names the instant to the millisecond
toISOString(t) == <<"iso", t>>
parseISO(text) == text[2]

-----------------------------------------------------------------------------
(* MacrosPage: numbers.  The statistics divide, so a number here is an     *)
(* exact fraction n/d in lowest terms; NaN, undefined, null and -Infinity  *)
(* are the other values the arithmetic of the view can produce.            *)

RECURSIVE Gcd(_, _)
Gcd(a, b) == IF b = 0 THEN a ELSE Gcd(b, a % b)

Q(n, d) ==
    LET g == Gcd(IF n < 0 THEN -n ELSE n, d)
    IN [t |-> "number", n |-> n \div g, d |-> d \div g]
QNaN == [t |-> "NaN", n |-> 0, d |-> 1]
Undefined == [t |-> "undefined", n |-> 0, d |-> 1]
QNull == [t |-> "null", n |-> 0, d |-> 1]
NegInfinity == [t |-> "-Infinity", n |-> 0, d |-> 1]
PosInfinity == [t |-> "Infinity", n |-> 0, d |-> 1]
IsNum(a) == a.t = "number"

\* a + b and a / k on numbers; undefined and NaN operands give NaN
QAdd(a, b) == IF IsNum(a) /\ IsNum(b) THEN Q(a.n * b.d + b.n * a.d, a.d * b.d) ELSE QNaN
QDivInt(a, k) == IF IsNum(a) THEN Q(a.n, a.d * k) ELSE QNaN
QLeq(a, b) == a.n * b.d <= b.n * a.d

RECURSIVE SumSeq(_)
\* values.reduce((a, b) => a + b, 0)
SumSeq(vals) ==
    IF vals = <<>> THEN Q(0, 1)
    ELSE QAdd(SumSeq(SubSeq(vals, 1, Len(vals) - 1)), vals[Len(vals)])

\* Math.max(...vals), Math.min(...vals)
MathMax(vals) ==
    IF vals = <<>> THEN NegInfinity
    ELSE IF \E i \in 1..Len(vals) : ~IsNum(vals[i]) THEN QNaN
    ELSE vals[CHOOSE i \in 1..Len(vals) : \A j \in 1..Len(vals) : QLeq(vals[j], vals[i])]
MathMin(vals) ==
    IF vals = <<>> THEN PosInfinity
    ELSE IF \E i \in 1..Len(vals) : ~IsNum(vals[i]) THEN QNaN
    ELSE vals[CHOOSE i \in 1..Len(vals) : \A j \in 1..Len(vals) : QLeq(vals[i], vals[j])]

RECURSIVE Distinct(_)
\* [...new Set(s)]: the distinct elements in order of first occurrence
Distinct(s) ==
    IF s = <<>> THEN <<>>
    ELSE LET r == Distinct(SubSeq(s, 1, Len(s) - 1))
             last == s[Len(s)]
         IN IF \E i \in 1..Len(r) : r[i] = last THEN r ELSE Append(r, last)

Reverse(s) == [i \in 1..Len(s) |-> s[Len(s) + 1 - i]]

-----------------------------------------------------------------------------
(* MacrosPage: calculateMedian, lines 40-47 *)

IsUndefined(a) == a.t = "undefined"

RECURSIVE InsertAscending(_, _)
InsertAscending(sorted, v) ==
    IF sorted = <<>> THEN <<v>>
    ELSE IF QLeq(sorted[Len(sorted)], v) THEN Append(sorted, v)
    ELSE Append(InsertAscending(SubSeq(sorted, 1, Len(sorted) - 1), v), sorted[Len(sorted)])

RECURSIVE SortAscending(_)
SortAscending(vals) ==
    IF vals = <<>> THEN <<>>
    ELSE InsertAscending(SortAscending(SubSeq(vals, 1, Len(vals) - 1)), vals[Len(vals)])

\* Array.prototype.sort((a, b) => a - b): the numbers ascending; undefined
\* elements go last without the comparator being asked
sortNumeric(values) ==
    SortAscending(SelectSeq(values, IsNum)) \o SelectSeq(values, IsUndefined)

\* the middle of the sorted copy (0-based mid is index mid + 1 here)
MedianOf(sorted) ==
    LET mid == Len(sorted) \div 2
    IN IF Len(sorted) = 0 THEN Q(0, 1)
       ELSE IF Len(sorted) % 2 = 0 THEN QDivInt(QAdd(sorted[mid], sorted[mid + 1]), 2)
       ELSE sorted[mid + 1]

\* a median that sorts the caller's array itself, without the copy
calculateMedianInPlace(values) ==
    [result |-> MedianOf(sortNumeric(values)), values |-> sortNumeric(values)]

\* the value returned and the caller's array as the call leaves it: line 42
\* sorts a copy, [...values]
calculateMedian(values) ==
    [result |-> MedianOf(sortNumeric(values)), values |-> values]

-----------------------------------------------------------------------------
(* MacrosPage: runDH3TempComparison, the derivation of lines 74-177 *)

\* String.prototype.endsWith on a location written as a sequence of pieces,
\* the last piece being the suffix a sensor name carries; <<>> is a reading
\* without a location, for which `entry.location?.` short-circuits
endsWith(location, suffix) == Len(location) > 0 /\ location[Len(location)] = suffix

\* lines 75-77
TargetDateSameYear(nowT, i) ==
    JsDate(getFullYear(nowT), (getMonth(nowT) - i) % 12, 1, 0, 0, 0)
TargetDate(nowT, i) == JsDate(getFullYear(nowT), getMonth(nowT) - i, 1, 0, 0, 0)
MonthStart(targetDate) == JsDate(getFullYear(targetDate), getMonth(targetDate), 1, 0, 0, 0)
MonthEnd(targetDate) ==
    JsDate(getFullYear(targetDate), getMonth(targetDate) + 1, 0, 23, 59, 59)

\* lines 87-90
MonthData(all, monthStart, monthEnd) ==
    LET InMonth(entry) == NotAfter(monthStart, entry.created) /\ NotAfter(entry.created, monthEnd)
    IN SelectSeq(all, InMonth)

\* lines 98-104
IsUp(entry) == endsWith(entry.location, "-up")
IsDown(entry) == ~IsUp(entry) /\ endsWith(entry.location, "-down")
NotUp(entry) == ~IsUp(entry)
HotOf(monthData) == SelectSeq(monthData, IsUp)
ColdOfRest(monthData) == SelectSeq(monthData, NotUp)
ColdOf(monthData) == SelectSeq(monthData, IsDown)

LocationsOf(data) == Distinct([i \in 1..Len(data) |-> data[i].location])
ReadingsOf(data) == [i \in 1..Len(data) |-> data[i].reading]

\* lines 111-128: per location, in order of first appearance, the running
\* sum (from 0), the count and their quotient
calculateSensorAverages(data) ==
    LET keys == LocationsOf(data)
        At(loc) == LET Here(entry) == entry.location = loc IN SelectSeq(data, Here)
    IN [i \in 1..Len(keys) |->
           [location |-> keys[i],
            sum |-> SumSeq(ReadingsOf(At(keys[i]))),
            count |-> Len(At(keys[i])),
            average |-> QDivInt(SumSeq(ReadingsOf(At(keys[i]))), Len(At(keys[i])))]]

\* the mean over all raw readings of the group
OverallAvgFlat(data) ==
    IF Len(data) > 0 THEN QDivInt(SumSeq(ReadingsOf(data)), Len(data)) ELSE Q(0, 1)

\* lines 134-142
OverallAvg(data) ==
    LET sensors == calculateSensorAverages(data)
        avgValues == [i \in 1..Len(sensors) |-> sensors[i].average]
    IN IF Len(avgValues) > 0 THEN QDivInt(SumSeq(avgValues), Len(avgValues)) ELSE Q(0, 1)

\* lines 148-151
PeakOfFirst(readings) == IF Len(readings) > 0 THEN readings[1] ELSE Q(0, 1)
PeakUnguarded(readings) == MathMax(readings)
Peak(readings) == IF Len(readings) > 0 THEN MathMax(readings) ELSE Q(0, 1)
Bottom(readings) == IF Len(readings) > 0 THEN MathMin(readings) ELSE Q(0, 1)

\* one pass of the loop, lines 75-174; monthStart and monthEnd are the
\* locals of the pass, kept beside the record that is pushed
MonthStat(all, nowT, i) ==
    LET targetDate == TargetDate(nowT, i)
        monthStart == MonthStart(targetDate)
        monthEnd == MonthEnd(targetDate)
        monthData == MonthData(all, monthStart, monthEnd)
        hotSensorData == HotOf(monthData)
        coldSensorData == ColdOf(monthData)
    IN [month |-> monthLabel(monthStart),
        monthStart |-> monthStart,
        monthEnd |-> monthEnd,
        hotData |-> hotSensorData,
        coldData |-> coldSensorData,
        hotSensors |-> LocationsOf(hotSensorData),
        coldSensors |-> LocationsOf(coldSensorData),
        overallHotAvg |-> OverallAvg(hotSensorData),
        overallColdAvg |-> OverallAvg(coldSensorData),
        hotPeak |-> Peak(ReadingsOf(hotSensorData)),
        hotBottom |-> Bottom(ReadingsOf(hotSensorData)),
        coldPeak |-> Peak(ReadingsOf(coldSensorData)),
        coldBottom |-> Bottom(ReadingsOf(coldSensorData)),
        hotMedian |-> calculateMedian(ReadingsOf(hotSensorData)).result,
        coldMedian |-> calculateMedian(ReadingsOf(coldSensorData)).result,
        totalReadings |-> Len(monthData)]

\* the loop pushes offset 0 first; line 177 reverses
NoReverse(s) == s
OldestFirst(s) == Reverse(s)
MonthlyStats(all, nowT, months) ==
    OldestFirst([k \in 1..months |-> MonthStat(all, nowT, k - 1)])

-----------------------------------------------------------------------------
(* MacrosPage: processChartData, lines 188-239 *)

\* lines 194-199, 209-214: the start of the reading's clock-hour, as text
hourKey(t) ==
    toISOString(JsDate(getFullYear(t), getMonth(t), getDate(t), getHours(t), 0, 0))

\* the keys of timeGroups in insertion order: hot readings first, then cold
HourKeys(hotData, coldData) ==
    Distinct([i \in 1..Len(hotData) |-> hourKey(hotData[i].created)]
             \o [i \in 1..Len(coldData) |-> hourKey(coldData[i].created)])

InHour(data, key) ==
    LET Here(entry) == hourKey(entry.created) = key IN ReadingsOf(SelectSeq(data, Here))

\* lines 228-229: sum / count, null when the hour has no reading of the group
HourAverageZero(readings) ==
    IF Len(readings) > 0 THEN QDivInt(SumSeq(readings), Len(readings)) ELSE Q(0, 1)
HourAverage(readings) ==
    IF Len(readings) > 0 THEN QDivInt(SumSeq(readings), Len(readings)) ELSE QNull

RECURSIVE InsertByInstant(_, _)
InsertByInstant(sorted, e) ==
    IF sorted = <<>> THEN <<e>>
    ELSE IF NotAfter(parseISO(sorted[Len(sorted)].created), parseISO(e.created))
         THEN Append(sorted, e)
    ELSE Append(InsertByInstant(SubSeq(sorted, 1, Len(sorted) - 1), e), sorted[Len(sorted)])

RECURSIVE SortByInstant(_)
\* lines 233-236: averaged.sort by getTime(), ascending and stable
SortByInstant(s) ==
    IF s = <<>> THEN <<>>
    ELSE InsertByInstant(SortByInstant(SubSeq(s, 1, Len(s) - 1)), s[Len(s)])

processChartData(hotData, coldData) ==
    LET keys == HourKeys(hotData, coldData)
    IN SortByInstant([i \in 1..Len(keys) |->
                         [created |-> keys[i],
                          hotAvg |-> HourAverage(InHour(hotData, keys[i])),
                          coldAvg |-> HourAverage(InHour(coldData, keys[i]))]])

-----------------------------------------------------------------------------
(* MacrosPage: readings and dates explored *)

MaxProbe == 1
MaxMonthly == 3
MaxValues == 4
MaxHourly == 3
MaxMalformed == 3

R1Up == <<"dh3-r1", "-up">>
R2Up == <<"dh3-r2", "-up">>
R1Down == <<"dh3-r1", "-down">>
Ambient == <<"dh3-", "-up", "per">>
NoLocation == <<>>
SensorNames == {R1Up, R2Up, R1Down, Ambient, NoLocation}

\* 10 March 2024 08:15 and 10 February 2024 09:00
MarchInstant == JsDate(2024, 2, 10, 8, 15, 0)
FebruaryInstant == JsDate(2024, 1, 10, 9, 0, 0)

\* one reading per kind of location and month, for the month buckets
ProbeReadings ==
    [created : {MarchInstant, FebruaryInstant}, location : SensorNames, reading : {Q(10, 1)}]

\* readings of two hot sensors and a cold one, for the statistics
MonthReadings ==
    [created : {MarchInstant, FebruaryInstant},
     location : {R1Up, R2Up, R1Down},
     reading : {Q(30, 1), Q(50, 1)}]

\* readings of March of which some lack their `reading`
MalformedReadings ==
    [created : {MarchInstant},
     location : {R1Up, R1Down},
     reading : {Q(10, 1), Q(30, 1), Undefined}]

\* the choices of the month select, lines 274-278
MonthChoices == {1, 2, 3, 6, 12}

\* current dates: ends and starts of months, a leap February, both sides of
\* a new year
NowSet ==
    {JsDate(2024, 2, 31, 23, 0, 0), JsDate(2024, 2, 1, 0, 0, 0),
     JsDate(2024, 0, 31, 12, 0, 0), JsDate(2024, 1, 29, 12, 0, 0),
     JsDate(2023, 2, 15, 12, 0, 0), JsDate(2024, 11, 31, 23, 59, 59),
     JsDate(2025, 0, 1, 0, 0, 0), JsDate(2023, 0, 15, 12, 0, 0)}

\* values handed to calculateMedian
MedianValues == {Q(10, 1), Q(20, 1), Q(30, 1), Q(40, 1)}

\* readings of one day for the hourly chart: two in the 08 hour, one in the
\* 10 hour, each in the hot or the cold group
HourInstants ==
    {JsDate(2024, 2, 10, 8, 15, 0), JsDate(2024, 2, 10, 8, 45, 0),
     JsDate(2024, 2, 10, 10, 0, 0)}
HourReadings ==
    [created : HourInstants, location : {R1Up, R1Down}, reading : {Q(10, 1), Q(30, 1)}]

-----------------------------------------------------------------------------
(* MacrosPage: operations *)

\* runDH3TempComparison when the fetch answers with allData: lines 74-177
RunComparison ==
    /\ monthlyData' = MonthlyStats(allData, now, selectedMonths)
    /\ UNCHANGED <<now, selectedMonths, allData, chartIn, chartOut, medianIn, medianOut>>
    /\ UNCHANGED <<capVars, chartVars, viewVars>>

\* the render of the card of month idx, line 388
RenderMonthChart(idx) ==
    /\ chartIn' = [hot |-> monthlyData[idx].hotData, cold |-> monthlyData[idx].coldData]
    /\ chartOut' = [called |-> TRUE,
                    series |-> processChartData(monthlyData[idx].hotData,
                                                monthlyData[idx].coldData)]
    /\ UNCHANGED <<now, selectedMonths, allData, monthlyData, medianIn, medianOut>>
    /\ UNCHANGED <<capVars, chartVars, viewVars>>

\* processChartData applied to the two lists in chartIn
ProcessChartData ==
    /\ chartOut' = [called |-> TRUE, series |-> processChartData(chartIn.hot, chartIn.cold)]
    /\ UNCHANGED <<now, selectedMonths, allData, monthlyData, chartIn, medianIn, medianOut>>
    /\ UNCHANGED <<capVars, chartVars, viewVars>>

\* calculateMedian applied to the caller's array medianIn
CalculateMedian ==
    /\ medianOut' = [called |-> TRUE, given |-> medianIn,
                     result |-> calculateMedian(medianIn).result]
    /\ medianIn' = calculateMedian(medianIn).values
    /\ UNCHANGED <<now, selectedMonths, allData, monthlyData, chartIn, chartOut>>
    /\ UNCHANGED <<capVars, chartVars, viewVars>>

\* the month buckets: every offered month count, at several current dates,
\* beside the two charts as mounted (data = [])
InitMonths ==
    /\ now \in NowSet
    /\ selectedMonths \in MonthChoices
    /\ allData \in SeqsUpTo(ProbeReadings, MaxProbe)
    /\ monthlyData = <<>>
    /\ chartIn = NoCurve /\ chartOut = NoSeries
    /\ medianIn = <<>> /\ medianOut = NoMedian
    /\ CapIdle /\ ChartIdle /\ ViewIdle

NextMonths ==
    \/ RunComparison
    \/ \E idx \in 1..Len(monthlyData) : RenderMonthChart(idx)
    \/ PowerGroupEffect
    \/ TempGroupEffect

SpecMonths == InitMonths /\ [][NextMonths]_vars

\* the statistics of a month: March 2024 (and February, when two months
\* are asked for) over longer reading lists
InitMonthly ==
    /\ now = JsDate(2024, 2, 15, 12, 0, 0)
    /\ selectedMonths \in {1, 2}
    /\ allData \in SeqsUpTo(MonthReadings, MaxMonthly)
    /\ monthlyData = <<>>
    /\ chartIn = NoCurve /\ chartOut = NoSeries
    /\ medianIn = <<>> /\ medianOut = NoMedian
    /\ CapIdle /\ ChartIdle /\ ViewIdle

NextMonthly == RunComparison

SpecMonthly == InitMonthly /\ [][NextMonthly]_vars

\* the statistics of March 2024 over readings that may lack their value
InitMalformed ==
    /\ now = JsDate(2024, 2, 15, 12, 0, 0)
    /\ selectedMonths = 1
    /\ allData \in SeqsUpTo(MalformedReadings, MaxMalformed)
    /\ monthlyData = <<>>
    /\ chartIn = NoCurve /\ chartOut = NoSeries
    /\ medianIn = <<>> /\ medianOut = NoMedian
    /\ CapIdle /\ ChartIdle /\ ViewIdle

NextMalformed == RunComparison

SpecMalformed == InitMalformed /\ [][NextMalformed]_vars

\* calculateMedian on its own
InitMedian ==
    /\ medianIn \in SeqsUpTo(MedianValues, MaxValues)
    /\ medianOut = NoMedian
    /\ now = <<0, 0>> /\ selectedMonths = 3 /\ allData = <<>> /\ monthlyData = <<>>
    /\ chartIn = NoCurve /\ chartOut = NoSeries
    /\ CapIdle /\ ChartIdle /\ ViewIdle

NextMedian == CalculateMedian

SpecMedian == InitMedian /\ [][NextMedian]_vars

\* processChartData on its own: the readings of a day, split as line 98-104
\* splits them
InitHourly ==
    /\ \E d \in SeqsUpTo(HourReadings, MaxHourly) : chartIn = [hot |-> HotOf(d), cold |-> ColdOf(d)]
    /\ chartOut = NoSeries
    /\ now = <<0, 0>> /\ selectedMonths = 3 /\ allData = <<>> /\ monthlyData = <<>>
    /\ medianIn = <<>> /\ medianOut = NoMedian
    /\ CapIdle /\ ChartIdle /\ ViewIdle

NextHourly == ProcessChartData

SpecHourly == InitHourly /\ [][NextHourly]_vars

-----------------------------------------------------------------------------
(* Claims about the month buckets *)

\* the calendar month a label names, as <<year, month index 0..11>>
LabelMonth(label) ==
    <<label[2], (CHOOSE m \in 1..12 : MonthNames[m] = label[1]) - 1>>
MonthBefore(ym) == IF ym[2] = 0 THEN <<ym[1] - 1, 11>> ELSE <<ym[1], ym[2] - 1>>
RECURSIVE MonthsBefore(_, _)
MonthsBefore(ym, i) == IF i = 0 THEN ym ELSE MonthsBefore(MonthBefore(ym), i - 1)

CurrentMonth == <<getFullYear(now), getMonth(now)>>

\* C11: a successful run asked for N months stores exactly N records, the
\* oldest month first and the current month last, whatever the readings
C11_OldestFirst ==
    monthlyData # <<>> =>
        /\ Len(monthlyData) = selectedMonths
        /\ LabelMonth(monthlyData[Len(monthlyData)].month) = CurrentMonth
        /\ \A k \in 1..(Len(monthlyData) - 1) :
               LET a == LabelMonth(monthlyData[k].month)
                   b == LabelMonth(monthlyData[k + 1].month)
               IN a[1] < b[1] \/ (a[1] = b[1] /\ a[2] < b[2])

\* twelve months asked for with no reading at all
C11_Witness ==
    /\ allData = <<>> /\ selectedMonths = 12 /\ Len(monthlyData) = 12
    /\ monthlyData[1].month # monthlyData[12].month

\* the civil length of a month
CivilDays(ym) ==
    IF ym[2] = 1
    THEN (IF ym[1] % 4 = 0 /\ (ym[1] % 100 # 0 \/ ym[1] % 400 = 0) THEN 29 ELSE 28)
    ELSE <<31, 0, 31, 30, 31, 30, 31, 31, 30, 31, 30, 31>>[ym[2] + 1]

\* C12: the record at offset i from the current month is the calendar month
\* i months earlier (the year stepping back across January), from its first
\* day 00:00:00 to its civil last day 23:59:59; the months are consecutive
C12_CalendarMonths ==
    \A k \in 1..Len(monthlyData) :
        LET i == Len(monthlyData) - k
            ym == MonthsBefore(CurrentMonth, i)
            first == JsDate(ym[1], ym[2], 1, 0, 0, 0)
        IN /\ LabelMonth(monthlyData[k].month) = ym
           /\ monthlyData[k].monthStart = first
           /\ monthlyData[k].monthEnd =
                  <<first[1] + CivilDays(ym) - 1, 23 * HourMs + 59 * MinuteMs + 59 * 1000>>
           /\ k < Len(monthlyData) =>
                  MonthBefore(LabelMonth(monthlyData[k + 1].month)) = ym

\* three months back from January 2024 reach November 2023
C12_Witness ==
    /\ Len(monthlyData) = 3
    /\ monthlyData[1].month = <<"November", 2023>>
    /\ monthlyData[3].month = <<"January", 2024>>
    /\ getDate(now) = 31

-----------------------------------------------------------------------------
(* Claims about the hot and cold groups *)

InBucket(entry, stat) ==
    NotAfter(stat.monthStart, entry.created) /\ NotAfter(entry.created, stat.monthEnd)
LastPiece(location) == IF location = <<>> THEN "" ELSE location[Len(location)]
\* how many readings of the response fall in the month and carry the suffix
CountIn(stat, suffixes) ==
    Cardinality({j \in 1..Len(allData) :
                    InBucket(allData[j], stat) /\ LastPiece(allData[j].location) \in suffixes})

\* C13: in every month the hot group holds exactly the month's "-up"
\* readings and the cold group exactly its "-down" readings; a reading with
\* another location, or none, is in neither, and totalReadings counts it
C13_Partition ==
    \A k \in 1..Len(monthlyData) :
        LET stat == monthlyData[k]
        IN /\ \A j \in 1..Len(stat.hotData) : LastPiece(stat.hotData[j].location) = "-up"
           /\ \A j \in 1..Len(stat.coldData) : LastPiece(stat.coldData[j].location) = "-down"
           /\ Len(stat.hotData) = CountIn(stat, {"-up"})
           /\ Len(stat.coldData) = CountIn(stat, {"-down"})
           /\ stat.totalReadings =
                  Cardinality({j \in 1..Len(allData) : InBucket(allData[j], stat)})
           /\ stat.totalReadings >= Len(stat.hotData) + Len(stat.coldData)

\* a month whose only reading has no location: counted, in neither group
C13_Witness ==
    /\ Len(allData) = 1 /\ allData[1].location = NoLocation
    /\ \E k \in 1..Len(monthlyData) :
           /\ monthlyData[k].totalReadings = 1
           /\ monthlyData[k].hotData = <<>> /\ monthlyData[k].coldData = <<>>

-----------------------------------------------------------------------------
(* Claims about the statistics of a group *)

RangeOf(s) == {s[j] : j \in 1..Len(s)}
IndicesAt(data, loc) == {j \in 1..Len(data) : data[j].location = loc}

RECURSIVE SumAt(_, _)
\* the sum of the readings of `data` at the indices in S
SumAt(data, S) ==
    IF S = {} THEN Q(0, 1)
    ELSE LET j == CHOOSE x \in S : TRUE IN QAdd(data[j].reading, SumAt(data, S \ {j}))

LocationMean(data, loc) ==
    QDivInt(SumAt(data, IndicesAt(data, loc)), Cardinality(IndicesAt(data, loc)))

RECURSIVE SumOfMeans(_, _)
SumOfMeans(data, locs) ==
    IF locs = {} THEN Q(0, 1)
    ELSE LET l == CHOOSE x \in locs : TRUE
         IN QAdd(LocationMean(data, l), SumOfMeans(data, locs \ {l}))

MeanOfMeans(data) ==
    LET locs == {data[j].location : j \in 1..Len(data)}
    IN QDivInt(SumOfMeans(data, locs), Cardinality(locs))
FlatMean(data) == QDivInt(SumAt(data, 1..Len(data)), Len(data))

GroupAsClaimed(data, sensors, avg) ==
    /\ RangeOf(sensors) = {data[j].location : j \in 1..Len(data)}
    /\ Len(sensors) = Cardinality(RangeOf(sensors))
    /\ data # <<>> => avg = MeanOfMeans(data)
    /\ (Len(data) = 2 /\ data[1].location = data[2].location
          /\ {data[1].reading, data[2].reading} = {Q(30, 1), Q(50, 1)})
         => (Len(sensors) = 1 /\ avg = Q(40, 1))

\* C14: the sensor list of a group is the set of distinct locations of its
\* readings and its overall average is the mean of the per-location means
\* (30 and 50 from one sensor: one sensor, average 40)
C14_MeanOfSensorMeans ==
    \A k \in 1..Len(monthlyData) :
        /\ GroupAsClaimed(monthlyData[k].hotData, monthlyData[k].hotSensors,
                          monthlyData[k].overallHotAvg)
        /\ GroupAsClaimed(monthlyData[k].coldData, monthlyData[k].coldSensors,
                          monthlyData[k].overallColdAvg)

\* a hot group of two sensors where the mean of means is not the flat mean
C14_Witness ==
    \E k \in 1..Len(monthlyData) :
        /\ Len(monthlyData[k].hotData) = 3
        /\ Len(monthlyData[k].hotSensors) = 2
        /\ monthlyData[k].overallHotAvg = Q(40, 1)
        /\ monthlyData[k].overallHotAvg # FlatMean(monthlyData[k].hotData)

\* the value of rank k (1 = smallest) among vals, by counting
RankValue(vals, k) ==
    CHOOSE v \in RangeOf(vals) :
        /\ Cardinality({j \in 1..Len(vals) : ~QLeq(v, vals[j])}) < k
        /\ k <= Cardinality({j \in 1..Len(vals) : QLeq(vals[j], v)})

MedianAsClaimed(vals) ==
    LET n == Len(vals)
    IN IF n = 0 THEN Q(0, 1)
       ELSE IF n % 2 = 1 THEN RankValue(vals, (n + 1) \div 2)
       ELSE QDivInt(QAdd(RankValue(vals, n \div 2), RankValue(vals, (n \div 2) + 1)), 2)

\* C15: calculateMedian gives 0 for an empty list, the middle of the
\* ascending order for an odd count, the mean of the two middle values for
\* an even count (20 for [10,20,30], 25 for [10,20,30,40]), and leaves the
\* array it was given as it was
C15_Median ==
    medianOut.called =>
        /\ medianOut.result = MedianAsClaimed(medianOut.given)
        /\ medianIn = medianOut.given
        /\ RangeOf(medianOut.given) = {Q(10, 1), Q(20, 1), Q(30, 1)} /\ Len(medianOut.given) = 3
             => medianOut.result = Q(20, 1)
        /\ RangeOf(medianOut.given) = {Q(10, 1), Q(20, 1), Q(30, 1), Q(40, 1)}
             /\ Len(medianOut.given) = 4
             => medianOut.result = Q(25, 1)

\* four values out of order: the median is 25 and the array is untouched
C15_Witness ==
    /\ medianOut.called
    /\ medianIn = <<Q(40, 1), Q(10, 1), Q(30, 1), Q(20, 1)>>
    /\ medianOut.result = Q(25, 1)

ExtremesAsClaimed(data, peak, bottom, median, avg) ==
    data # <<>> =>
        /\ peak \in RangeOf(ReadingsOf(data))
        /\ bottom \in RangeOf(ReadingsOf(data))
        /\ \A j \in 1..Len(data) : QLeq(data[j].reading, peak) /\ QLeq(bottom, data[j].reading)
        /\ QLeq(bottom, median) /\ QLeq(median, peak)
        /\ QLeq(bottom, avg) /\ QLeq(avg, peak)

-----------------------------------------------------------------------------
(* Claims about empty input, the hourly series and malformed readings *)

EmptyGroupAsClaimed(data, sensors, avg, median, peak, bottom) ==
    data = <<>> =>
        /\ Len(sensors) = 0
        /\ avg = Q(0, 1) /\ median = Q(0, 1) /\ peak = Q(0, 1) /\ bottom = Q(0, 1)

\* C17: empty input gives neither an error nor NaN: the grouping effects of
\* both charts leave an empty bucket list for an empty reading list, the
\* hourly series of two empty groups is empty, and a group without readings
\* in a month has no sensor and average, median, peak and bottom 0
C17_EmptyInput ==
    /\ pData = <<>> => pFiltered = <<>>
    /\ tData = <<>> => (tGrouped = <<>> /\ tFiltered = <<>>)
    /\ (chartOut.called /\ chartIn = NoCurve) => chartOut.series = <<>>
    /\ \A k \in 1..Len(monthlyData) :
           LET stat == monthlyData[k]
           IN /\ EmptyGroupAsClaimed(stat.hotData, stat.hotSensors, stat.overallHotAvg,
                                     stat.hotMedian, stat.hotPeak, stat.hotBottom)
              /\ EmptyGroupAsClaimed(stat.coldData, stat.coldSensors, stat.overallColdAvg,
                                     stat.coldMedian, stat.coldPeak, stat.coldBottom)

\* a run over no reading at all, and the chart of one of its months drawn
C17_Witness ==
    /\ allData = <<>>
    /\ Len(monthlyData) = selectedMonths
    /\ monthlyData[1].hotData = <<>> /\ monthlyData[1].coldData = <<>>
    /\ monthlyData[1].totalReadings = 0
    /\ chartOut.called /\ chartIn = NoCurve
    /\ pData = <<>> /\ tData = <<>>

\* the start of the clock-hour of an instant
HourOf(t) == <<t[1], t[2] - (t[2] % HourMs)>>
HoursOf(data) == {HourOf(data[j].created) : j \in 1..Len(data)}
IndicesInHour(data, h) == {j \in 1..Len(data) : HourOf(data[j].created) = h}

\* avg is the mean of the readings of `data` in hour h, null without any
IsHourMean(avg, data, h) ==
    IF IndicesInHour(data, h) = {} THEN avg = QNull
    ELSE avg = QDivInt(SumAt(data, IndicesInHour(data, h)), Cardinality(IndicesInHour(data, h)))

\* C18: processChartData returns one entry per clock-hour holding a hot or a
\* cold reading, in ascending order; hotAvg and coldAvg are the means of the
\* hour's hot and cold readings, null (never 0) for a group without reading
C18_HourlySeries ==
    chartOut.called =>
        LET series == chartOut.series
            hours == HoursOf(chartIn.hot) \cup HoursOf(chartIn.cold)
        IN /\ Len(series) = Cardinality(hours)
           /\ {parseISO(series[j].created) : j \in 1..Len(series)} = hours
           /\ \A j \in 1..(Len(series) - 1) :
                  Before(parseISO(series[j].created), parseISO(series[j + 1].created))
           /\ \A j \in 1..Len(series) :
                  /\ IsHourMean(series[j].hotAvg, chartIn.hot, parseISO(series[j].created))
                  /\ IsHourMean(series[j].coldAvg, chartIn.cold, parseISO(series[j].created))

\* hot readings given latest hour first, two of them in the 08 hour, and a
\* cold reading in the 10 hour only
C18_Witness ==
    /\ chartOut.called
    /\ Len(chartIn.hot) = 2 /\ Len(chartIn.cold) = 1
    /\ Before(chartIn.cold[1].created, chartIn.hot[1].created)
    /\ Len(chartOut.series) = 2
    /\ chartOut.series[1].hotAvg = QNull
    /\ chartOut.series[2].coldAvg = QNull
    /\ chartOut.series[2].hotAvg = Q(20, 1)

WellFormed(entry) == IsNum(entry.reading)
\* the statistics as they would be without the malformed records
CleanStats == MonthlyStats(SelectSeq(allData, WellFormed), now, selectedMonths)

\* C19: a reading whose value is missing counts in no sum and no count: the
\* statistics of its group are those of the input without that record
C19_MalformedExcluded ==
    \A k \in 1..Len(monthlyData) :
        /\ monthlyData[k].overallHotAvg = CleanStats[k].overallHotAvg
        /\ monthlyData[k].overallColdAvg = CleanStats[k].overallColdAvg
        /\ monthlyData[k].hotPeak = CleanStats[k].hotPeak
        /\ monthlyData[k].hotBottom = CleanStats[k].hotBottom
        /\ monthlyData[k].coldPeak = CleanStats[k].coldPeak
        /\ monthlyData[k].coldBottom = CleanStats[k].coldBottom
        /\ monthlyData[k].hotMedian = CleanStats[k].hotMedian
        /\ monthlyData[k].coldMedian = CleanStats[k].coldMedian

-----------------------------------------------------------------------------
(* The views and their fetches: PowerCapacityCard (part_000), PowerChart   *)
(* and TemperatureChart (part_001), MacrosPage, NmapScanPage.  A fetch is  *)
(* sent by one action and settled by another; any request in flight may be *)
(* the next to settle.                                                     *)

Truthy(m) == m.t = "string" /\ m.s # ""
\* a || b
OrElse(a, b) == IF Truthy(a) THEN a ELSE b

\* the `message` a backend body may carry
ServerMessages == {NoMsg, Msg(""), Msg("backend: refused")}

\* what axios or fetch rejects with: an Error with a message, and for an
\* HTTP error status the body the backend sent (err.response.data.message)
Rejections ==
    {[message |-> "Network Error", serverMessage |-> NoMsg]}
        \cup {[message |-> "Request failed with status code 500", serverMessage |-> m] :
                 m \in ServerMessages}

CapacityBodies ==
    {[status |-> "ok", message |-> NoMsg, snapshot |-> s] : s \in {"snapshot A", "snapshot B"}}
        \cup {[status |-> "error", message |-> m, snapshot |-> NoSnapshot] : m \in ServerMessages}
HistoryBodies == {<<>>, <<MkRow(BaseFields)>>}
ChartBodies ==
    {<<>>, <<[created |-> 0, location |-> "rack1", reading |-> 10]>>,
     <<[created |-> 0, location |-> "rack1", reading |-> 30],
       [created |-> 30 * 1000, location |-> "rack2", reading |-> 10]>>}
MacroBodies ==
    {<<>>, <<[created |-> MarchInstant, location |-> R1Up, reading |-> Q(30, 1)],
             [created |-> FebruaryInstant, location |-> R1Down, reading |-> Q(50, 1)]>>}
ScanBodies ==
    {[status |-> "success", message |-> NoMsg]}
        \cup {[status |-> "failed", message |-> m] : m \in ServerMessages}
ViewMonthChoices == {1, 3}

\* the number of requests a view has sent so far, settled or in flight
Sent(fetch) == Len(log[fetch]) + Cardinality({r \in requests : r.fetch = fetch})

\* the request a handler sends, with the locals its continuation closes
\* over; `seq` numbers the requests of one view, `retry` notes that the
\* latest fetch of the view had failed
Send(fetch, months, at) ==
    /\ issued < budget
    /\ requests' = requests \cup {[fetch |-> fetch, seq |-> Sent(fetch) + 1,
                                   months |-> months, now |-> at,
                                   retry |-> outcome[fetch] = "failed"]}
    /\ issued' = issued + 1
    /\ outcome' = [outcome EXCEPT ![fetch] = "pending"]
    /\ UNCHANGED <<log, budget>>

NoBody == "no body"
\* the request is settled: `at` is the number of requests the view had
\* sent by then
Settle(req, how, body) ==
    /\ requests' = requests \ {req}
    /\ issued' = issued
    /\ outcome' = [outcome EXCEPT ![req.fetch] = how]
    /\ log' = [log EXCEPT ![req.fetch] =
                   Append(@, [seq |-> req.seq, retry |-> req.retry, how |-> how,
                              body |-> body, at |-> Sent(req.fetch)])]
    /\ budget' = budget

probeVars == <<capOut, csv, chartIn, chartOut, medianIn, medianOut>>

\* fetchCapacityData up to its await, part_000 lines 70-73: on mount, on
\* the 30-minute timer and on Refresh
FetchCapacity ==
    /\ Send("capacity", 0, <<0, 0>>)
    /\ cLoading' = TRUE
    /\ cError' = NoMsg
    /\ UNCHANGED <<cData, historyLoading, isHistoryOpen, historyData>>
    /\ UNCHANGED <<chartVars, pError, tError, runVars, scanVars, probeVars>>
    /\ UNCHANGED <<now, selectedMonths, allData, monthlyData>>

\* lines 75-85 when the request is answered
CapacityResponds(req, body) ==
    /\ req.fetch = "capacity"
    /\ IF body.status = "error"
       THEN /\ cError' = OrElse(body.message, Msg("Failed to fetch capacity data"))
            /\ cData' = cData
            /\ Settle(req, "failed", NoBody)
       ELSE /\ cData' = body.snapshot
            /\ cError' = cError
            /\ Settle(req, "ok", body.snapshot)
    /\ cLoading' = FALSE
    /\ UNCHANGED <<historyLoading, isHistoryOpen, historyData>>
    /\ UNCHANGED <<chartVars, pError, tError, runVars, scanVars, probeVars>>
    /\ UNCHANGED <<now, selectedMonths, allData, monthlyData>>

\* a catch that writes an error state shared with the power chart
CapacityRejectsShared(req, err) ==
    /\ req.fetch = "capacity"
    /\ cError' = Msg(err.message)
    /\ pError' = Msg(err.message)
    /\ cLoading' = FALSE
    /\ Settle(req, "failed", NoBody)
    /\ UNCHANGED <<cData, historyLoading, isHistoryOpen, historyData>>
    /\ UNCHANGED <<chartVars, tError, runVars, scanVars, probeVars>>
    /\ UNCHANGED <<now, selectedMonths, allData, monthlyData>>

\* lines 80-85 when the request is rejected
CapacityRejects(req, err) ==
    /\ req.fetch = "capacity"
    /\ cError' = Msg(err.message)
    /\ cLoading' = FALSE
    /\ Settle(req, "failed", NoBody)
    /\ UNCHANGED <<cData, historyLoading, isHistoryOpen, historyData>>
    /\ UNCHANGED <<chartVars, pError, tError, runVars, scanVars, probeVars>>
    /\ UNCHANGED <<now, selectedMonths, allData, monthlyData>>

\* an effect that loads the history on every opening of the sheet
OpenHistoryAlways ==
    /\ ~isHistoryOpen
    /\ isHistoryOpen' = TRUE
    /\ Send("history", 0, <<0, 0>>) /\ historyLoading' = TRUE
    /\ UNCHANGED <<cData, cLoading, cError, historyData>>
    /\ UNCHANGED <<chartVars, pError, tError, runVars, scanVars, probeVars>>
    /\ UNCHANGED <<now, selectedMonths, allData, monthlyData>>

\* the sheet opens (line 249) and the effect of lines 198-202 runs
\* loadHistoryData up to its await (lines 90-92) when no history is loaded
OpenHistory ==
    /\ ~isHistoryOpen
    /\ isHistoryOpen' = TRUE
    /\ IF Len(historyData) = 0
       THEN Send("history", 0, <<0, 0>>) /\ historyLoading' = TRUE
       ELSE UNCHANGED <<netVars, historyLoading>>
    /\ UNCHANGED <<cData, cLoading, cError, historyData>>
    /\ UNCHANGED <<chartVars, pError, tError, runVars, scanVars, probeVars>>
    /\ UNCHANGED <<now, selectedMonths, allData, monthlyData>>

CloseHistory ==
    /\ isHistoryOpen
    /\ isHistoryOpen' = FALSE
    /\ UNCHANGED <<cData, cLoading, cError, historyLoading, historyData, netVars>>
    /\ UNCHANGED <<chartVars, pError, tError, runVars, scanVars, probeVars>>
    /\ UNCHANGED <<now, selectedMonths, allData, monthlyData>>

\* lines 93, 96-98
HistoryResponds(req, rows) ==
    /\ req.fetch = "history"
    /\ historyData' = rows
    /\ historyLoading' = FALSE
    /\ Settle(req, "ok", rows)
    /\ UNCHANGED <<cData, cLoading, cError, isHistoryOpen>>
    /\ UNCHANGED <<chartVars, pError, tError, runVars, scanVars, probeVars>>
    /\ UNCHANGED <<now, selectedMonths, allData, monthlyData>>

\* lines 94-98: the catch block logs to the console and sets no state
HistoryRejects(req, err) ==
    /\ req.fetch = "history"
    /\ historyLoading' = FALSE
    /\ Settle(req, "failed", NoBody)
    /\ UNCHANGED <<cData, cLoading, cError, isHistoryOpen, historyData>>
    /\ UNCHANGED <<chartVars, pError, tError, runVars, scanVars, probeVars>>
    /\ UNCHANGED <<now, selectedMonths, allData, monthlyData>>

\* fetchPower up to its await, part_001 lines 376-380: on mount, on the
\* 60-second timer and on Retry
FetchPower ==
    /\ Send("power", 0, <<0, 0>>)
    /\ pError' = NoMsg
    /\ UNCHANGED <<cardVars, historyData, chartVars, tError, runVars, scanVars, probeVars>>
    /\ UNCHANGED <<now, selectedMonths, allData, monthlyData>>

\* an answer applied only when no later request has been answered yet
PowerRespondsGuarded(req, body) ==
    /\ req.fetch = "power"
    /\ pData' = IF \E i \in 1..Len(log["power"]) :
                       log["power"][i].how = "ok" /\ log["power"][i].seq > req.seq
                THEN pData ELSE body
    /\ Settle(req, "ok", body)
    /\ UNCHANGED <<pFiltered, pConfig, tData, tGrouped, tFiltered, tConfig>>
    /\ UNCHANGED <<cardVars, historyData, pError, tError, runVars, scanVars, probeVars>>
    /\ UNCHANGED <<now, selectedMonths, allData, monthlyData>>

\* line 381
PowerResponds(req, body) ==
    /\ req.fetch = "power"
    /\ pData' = body
    /\ Settle(req, "ok", body)
    /\ UNCHANGED <<pFiltered, pConfig, tData, tGrouped, tFiltered, tConfig>>
    /\ UNCHANGED <<cardVars, historyData, pError, tError, runVars, scanVars, probeVars>>
    /\ UNCHANGED <<now, selectedMonths, allData, monthlyData>>

\* a catch that also drops the data
PowerRejectsDropsData(req, err) ==
    /\ req.fetch = "power"
    /\ pError' = Msg("Failed to load power data for ODCDH1")
    /\ pData' = <<>>
    /\ Settle(req, "failed", NoBody)
    /\ UNCHANGED <<pFiltered, pConfig, tData, tGrouped, tFiltered, tConfig>>
    /\ UNCHANGED <<cardVars, historyData, tError, runVars, scanVars, probeVars>>
    /\ UNCHANGED <<now, selectedMonths, allData, monthlyData>>

\* lines 382-385
PowerRejects(req, err) ==
    /\ req.fetch = "power"
    /\ pError' = Msg("Failed to load power data for ODCDH1")
    /\ Settle(req, "failed", NoBody)
    /\ UNCHANGED <<cardVars, historyData, chartVars, tError, runVars, scanVars, probeVars>>
    /\ UNCHANGED <<now, selectedMonths, allData, monthlyData>>

\* fetchTemp up to its await, part_001 lines 541-545
FetchTemp ==
    /\ Send("temperature", 0, <<0, 0>>)
    /\ tError' = NoMsg
    /\ UNCHANGED <<cardVars, historyData, chartVars, pError, runVars, scanVars, probeVars>>
    /\ UNCHANGED <<now, selectedMonths, allData, monthlyData>>

\* line 546
TempResponds(req, body) ==
    /\ req.fetch = "temperature"
    /\ tData' = body
    /\ Settle(req, "ok", body)
    /\ UNCHANGED <<tGrouped, tFiltered, tConfig, pData, pFiltered, pConfig>>
    /\ UNCHANGED <<cardVars, historyData, pError, tError, runVars, scanVars, probeVars>>
    /\ UNCHANGED <<now, selectedMonths, allData, monthlyData>>

\* lines 547-550
TempRejects(req, err) ==
    /\ req.fetch = "temperature"
    /\ tError' = Msg("Failed to load temperature data for ODCDH1")
    /\ Settle(req, "failed", NoBody)
    /\ UNCHANGED <<cardVars, historyData, chartVars, pError, runVars, scanVars, probeVars>>
    /\ UNCHANGED <<now, selectedMonths, allData, monthlyData>>

\* the month select, macros/page.tsx line 270
SelectMonths(n) ==
    /\ n # selectedMonths
    /\ selectedMonths' = n
    /\ UNCHANGED <<now, allData, monthlyData, probeVars>>
    /\ UNCHANGED <<cardVars, historyData, chartVars, pError, tError, runVars, scanVars, netVars>>

\* a start that keeps the previous results on the page
StartRunKeepResults(at) ==
    /\ ~mLoading
    /\ Send("macro", selectedMonths, at)
    /\ mLoading' = TRUE
    /\ mError' = NoMsg
    /\ UNCHANGED <<now, monthlyData>>
    /\ UNCHANGED <<selectedMonths, allData, probeVars>>
    /\ UNCHANGED <<cardVars, historyData, chartVars, pError, tError, scanVars>>

\* runDH3TempComparison up to its await, lines 50-64; the button that calls
\* it is disabled while loading (line 286)
StartRun(at) ==
    /\ ~mLoading
    /\ Send("macro", selectedMonths, at)
    /\ mLoading' = TRUE
    /\ mError' = NoMsg
    /\ monthlyData' = <<>>
    /\ now' = at
    /\ UNCHANGED <<selectedMonths, allData, probeVars>>
    /\ UNCHANGED <<cardVars, historyData, chartVars, pError, tError, scanVars>>

\* lines 66-185 when fetch resolves: a non-OK status throws into the catch
RunResponds(req, ok, body) ==
    /\ req.fetch = "macro"
    /\ IF ok
       THEN /\ allData' = body
            /\ monthlyData' = MonthlyStats(body, req.now, req.months)
            /\ mError' = mError
            /\ Settle(req, "ok", body)
       ELSE /\ mError' = Msg("HTTP error! status: 500")
            /\ UNCHANGED <<allData, monthlyData>>
            /\ Settle(req, "failed", NoBody)
    /\ mLoading' = FALSE
    /\ UNCHANGED <<now, selectedMonths, probeVars>>
    /\ UNCHANGED <<cardVars, historyData, chartVars, pError, tError, scanVars>>

\* a catch without the finally block
RunRejectsStuck(req) ==
    /\ req.fetch = "macro"
    /\ mError' = Msg("Failed to fetch")
    /\ mLoading' = mLoading
    /\ Settle(req, "failed", NoBody)
    /\ UNCHANGED <<now, selectedMonths, allData, monthlyData, probeVars>>
    /\ UNCHANGED <<cardVars, historyData, chartVars, pError, tError, scanVars>>

\* lines 180-185 when fetch rejects (a TypeError with its message)
RunRejects(req) ==
    /\ req.fetch = "macro"
    /\ mError' = Msg("Failed to fetch")
    /\ mLoading' = FALSE
    /\ Settle(req, "failed", NoBody)
    /\ UNCHANGED <<now, selectedMonths, allData, monthlyData, probeVars>>
    /\ UNCHANGED <<cardVars, historyData, chartVars, pError, tError, scanVars>>

\* checkNmapAvailability up to its await, nmap-scan/page.tsx lines 85-93:
\* once, on mount
CheckNmap ==
    /\ outcome["nmap"] = "none"
    /\ Send("nmap", 0, <<0, 0>>)
    /\ UNCHANGED <<cardVars, historyData, chartVars, pError, tError, runVars, scanVars, probeVars>>
    /\ UNCHANGED <<now, selectedMonths, allData, monthlyData>>

\* line 94
NmapResponds(req, status) ==
    /\ req.fetch = "nmap"
    /\ nmapAvailable' = IF status = "available" THEN "true" ELSE "false"
    /\ Settle(req, "ok", status)
    /\ UNCHANGED <<scanning, scanResult, scanError>>
    /\ UNCHANGED <<cardVars, historyData, chartVars, pError, tError, runVars, probeVars>>
    /\ UNCHANGED <<now, selectedMonths, allData, monthlyData>>

\* lines 95-98
NmapRejects(req, err) ==
    /\ req.fetch = "nmap"
    /\ nmapAvailable' = "false"
    /\ Settle(req, "failed", NoBody)
    /\ UNCHANGED <<scanning, scanResult, scanError>>
    /\ UNCHANGED <<cardVars, historyData, chartVars, pError, tError, runVars, probeVars>>
    /\ UNCHANGED <<now, selectedMonths, allData, monthlyData>>

\* a scan button that is never disabled
StartScanUnguarded ==
    /\ Send("scan", 0, <<0, 0>>)
    /\ scanning' = TRUE
    /\ scanError' = NoMsg
    /\ UNCHANGED <<scanResult, nmapAvailable>>
    /\ UNCHANGED <<cardVars, historyData, chartVars, pError, tError, runVars, probeVars>>
    /\ UNCHANGED <<now, selectedMonths, allData, monthlyData>>

\* runScan up to its await, lines 102-108; its button is disabled while
\* scanning or when nmap is known to be missing (line 170)
StartScan ==
    /\ ~scanning /\ nmapAvailable # "false"
    /\ Send("scan", 0, <<0, 0>>)
    /\ scanning' = TRUE
    /\ scanError' = NoMsg
    /\ UNCHANGED <<scanResult, nmapAvailable>>
    /\ UNCHANGED <<cardVars, historyData, chartVars, pError, tError, runVars, probeVars>>
    /\ UNCHANGED <<now, selectedMonths, allData, monthlyData>>

\* lines 110-114, 121-123
ScanResponds(req, body) ==
    /\ req.fetch = "scan"
    /\ IF body.status = "success"
       THEN /\ scanResult' = <<"scan result of request", req.seq>>
            /\ scanError' = scanError
            /\ Settle(req, "ok", <<"scan result of request", req.seq>>)
       ELSE /\ scanError' = OrElse(body.message, Msg("Scan failed"))
            /\ scanResult' = scanResult
            /\ Settle(req, "failed", NoBody)
    /\ scanning' = FALSE
    /\ UNCHANGED nmapAvailable
    /\ UNCHANGED <<cardVars, historyData, chartVars, pError, tError, runVars, probeVars>>
    /\ UNCHANGED <<now, selectedMonths, allData, monthlyData>>

\* lines 115-123
ScanRejects(req, err) ==
    /\ req.fetch = "scan"
    /\ scanError' = OrElse(err.serverMessage,
                           Msg("Failed to run network scan. Check server logs."))
    /\ scanning' = FALSE
    /\ Settle(req, "failed", NoBody)
    /\ UNCHANGED <<scanResult, nmapAvailable>>
    /\ UNCHANGED <<cardVars, historyData, chartVars, pError, tError, runVars, probeVars>>
    /\ UNCHANGED <<now, selectedMonths, allData, monthlyData>>

InitViews == CapIdle /\ ChartIdle /\ MacroIdle /\ ViewIdle

NextViews ==
    \/ FetchCapacity
    \/ \E req \in requests, body \in CapacityBodies : CapacityResponds(req, body)
    \/ \E req \in requests, err \in Rejections : CapacityRejects(req, err)
    \/ OpenHistory
    \/ CloseHistory
    \/ \E req \in requests, rows \in HistoryBodies : HistoryResponds(req, rows)
    \/ \E req \in requests, err \in Rejections : HistoryRejects(req, err)
    \/ FetchPower
    \/ \E req \in requests, body \in ChartBodies : PowerResponds(req, body)
    \/ \E req \in requests, err \in Rejections : PowerRejects(req, err)
    \/ PowerGroupEffect
    \/ FetchTemp
    \/ \E req \in requests, body \in ChartBodies : TempResponds(req, body)
    \/ \E req \in requests, err \in Rejections : TempRejects(req, err)
    \/ TempGroupEffect
    \/ \E n \in ViewMonthChoices : SelectMonths(n)
    \/ StartRun(JsDate(2024, 2, 15, 12, 0, 0))
    \/ \E req \in requests, ok \in BOOLEAN, body \in MacroBodies : RunResponds(req, ok, body)
    \/ \E req \in requests : RunRejects(req)
    \/ CheckNmap
    \/ \E req \in requests, status \in {"available", "unavailable"} : NmapResponds(req, status)
    \/ \E req \in requests, err \in Rejections : NmapRejects(req, err)
    \/ StartScan
    \/ \E req \in requests, body \in ScanBodies : ScanResponds(req, body)
    \/ \E req \in requests, err \in Rejections : ScanRejects(req, err)

SpecViews == InitViews /\ [][NextViews]_vars

-----------------------------------------------------------------------------
(* Claims about fetch failures *)

\* C20: a failed fetch of any view (capacity current/previous, capacity
\* history, power, temperature, monthly comparison, network scan) leaves
\* the view showing a non-empty error message
C20_FailuresSurface ==
    /\ outcome["capacity"] = "failed" => Truthy(cError)
    /\ outcome["history"] = "failed" => Truthy(cError)
    /\ outcome["power"] = "failed" => Truthy(pError)
    /\ outcome["temperature"] = "failed" => Truthy(tError)
    /\ outcome["macro"] = "failed" => Truthy(mError)
    /\ outcome["scan"] = "failed" => Truthy(scanError)


\* ---------------------------------------------------------------------
\* The monthly-comparison page on its own: runs started from the button,
\* one after another.  fetch() settles every request, with a response or
\* with a network error, so a pending run is settled in the end.
MaxRuns == 3

RunInstants == {JsDate(2024, 2, 15, 12, 0, 0)}

InitRun == CapIdle /\ ChartIdle /\ MacroIdle /\ ViewsMounted /\ budget = MaxRuns

RunSettles ==
    \E req \in requests :
        \/ \E ok \in BOOLEAN, body \in MacroBodies : RunResponds(req, ok, body)
        \/ RunRejects(req)

NextRun ==
    \/ \E n \in ViewMonthChoices : SelectMonths(n)
    \/ \E at \in RunInstants : StartRun(at)
    \/ \E req \in requests, ok \in BOOLEAN, body \in MacroBodies : RunResponds(req, ok, body)
    \/ \E req \in requests : RunRejects(req)

SpecRun == InitRun /\ [][NextRun]_vars /\ WF_vars(RunSettles)

\* C26: on the monthly-comparison page an error and results are never shown
\* together; a started run has cleared both, a failed run ends with the
\* error set and no results, a successful run ends with no error.
C26_ErrorOrResults ==
    /\ Truthy(mError) => monthlyData = <<>>
    /\ outcome["macro"] = "pending" => mError = NoMsg /\ monthlyData = <<>>
    /\ outcome["macro"] = "failed" => Truthy(mError) /\ monthlyData = <<>>
    /\ outcome["macro"] = "ok" => mError = NoMsg /\ monthlyData # <<>>

\* a run failed after an earlier run had put results on the page
C26_Witness ==
    /\ Len(log["macro"]) >= 2
    /\ log["macro"][1].how = "ok"
    /\ outcome["macro"] = "failed"
    /\ Truthy(mError) /\ monthlyData = <<>>

RunsInFlight == {r \in requests : r.fetch = "macro"}

MaxScans == 4

InitScan == CapIdle /\ ChartIdle /\ MacroIdle /\ ViewsMounted /\ budget = MaxScans

NextScan ==
    \/ CheckNmap
    \/ \E req \in requests, status \in {"available", "unavailable"} : NmapResponds(req, status)
    \/ \E req \in requests, err \in Rejections : NmapRejects(req, err)
    \/ StartScan
    \/ \E req \in requests, body \in ScanBodies : ScanResponds(req, body)
    \/ \E req \in requests, err \in Rejections : ScanRejects(req, err)

SpecScan == InitScan /\ [][NextScan]_vars

ScansInFlight == {r \in requests : r.fetch = "scan"}

\* C30: a scan is started only while none is in progress and the
\* availability check has not reported unavailable; a failed check leaves
\* nmapAvailable false; every scan ends with scanning false.
C30_ScanGuard ==
    /\ [][ScansInFlight' # ScansInFlight /\ ScansInFlight' # {}
            => ~scanning /\ nmapAvailable # "false" /\ scanning']_vars
    /\ [](Cardinality(ScansInFlight) <= 1 /\ (scanning <=> ScansInFlight # {}))
    /\ [](outcome["nmap"] = "failed" => nmapAvailable = "false")
    /\ []((nmapAvailable = "null") <=> (outcome["nmap"] \in {"none", "pending"}))

\* a scan started before the check had answered has ended in an error,
\* and the check has failed since
C30_Witness ==
    /\ Len(log["scan"]) >= 1
    /\ log["scan"][1].how = "failed"
    /\ ~scanning /\ Truthy(scanError)
    /\ outcome["nmap"] = "failed" /\ nmapAvailable = "false"


\* ---------------------------------------------------------------------
\* The capacity card on its own: its fetches, the history sheet and the
\* CSV export of the loaded history.
MaxCardFetches == 3

InitCard == CapIdle /\ ChartIdle /\ MacroIdle /\ ViewsMounted /\ budget = MaxCardFetches

NextCard ==
    \/ FetchCapacity
    \/ \E req \in requests, body \in CapacityBodies : CapacityResponds(req, body)
    \/ \E req \in requests, err \in Rejections : CapacityRejects(req, err)
    \/ OpenHistory
    \/ CloseHistory
    \/ \E req \in requests, rows \in HistoryBodies : HistoryResponds(req, rows)
    \/ \E req \in requests, err \in Rejections : HistoryRejects(req, err)
    \/ downloadHistoryCSV

SpecCard == InitCard /\ [][NextCard]_vars

HistoryInFlight == {r \in requests : r.fetch = "history"}

\* C29 as stated: once a response has loaded a non-empty history, no
\* further history request is sent (with the rest of the claim below).
C29_NeverAgain ==
    \A i \in 1..Len(log["history"]) :
        LET e == log["history"][i]
        IN (e.how = "ok" /\ Len(e.body) > 0) => Sent("history") = e.at

\* C29: a history request is sent only by the sheet going from closed to
\* open while the loaded history is empty, so opening the sheet over a
\* non-empty history sends none; the export makes no file while the history
\* is empty.
C29_OnlyWhenEmpty ==
    /\ [][HistoryInFlight' # HistoryInFlight /\ ~(HistoryInFlight' \subseteq HistoryInFlight)
            => ~isHistoryOpen /\ isHistoryOpen' /\ Len(historyData) = 0]_vars
    /\ [][~isHistoryOpen /\ isHistoryOpen' /\ Len(historyData) > 0
            => HistoryInFlight' = HistoryInFlight /\ ~historyLoading']_vars
    /\ [][Len(historyData) = 0 /\ csv' # csv
            => csv'.status = "skipped" /\ csv'.content = <<>>]_vars

\* the sheet was opened twice over an empty history, a non-empty history is
\* loaded now, and the export has made a file of it
C29_Witness ==
    /\ Sent("history") >= 2 /\ HistoryInFlight = {}
    /\ Len(historyData) > 0 /\ isHistoryOpen
    /\ csv.status = "saved"


\* ---------------------------------------------------------------------
\* One monthly comparison over readings stamped around the turn of a month,
\* the stamps carrying milliseconds as new Date(entry.created) keeps them.
MaxEdge == 2

AddMs(t, ms) == <<t[1], t[2] + ms>>

EdgeInstants ==
    {JsDate(2024, 1, 29, 23, 59, 59), AddMs(JsDate(2024, 1, 29, 23, 59, 59), 500),
     JsDate(2024, 2, 1, 0, 0, 0), AddMs(JsDate(2023, 11, 31, 23, 59, 59), 999)}

EdgeReadings == [created : EdgeInstants, location : {R1Up}, reading : {Q(10, 1)}]

InitPartition ==
    /\ now \in NowSet
    /\ selectedMonths \in MonthChoices
    /\ allData \in SeqsUpTo(EdgeReadings, MaxEdge)
    /\ monthlyData = <<>>
    /\ chartIn = NoCurve /\ chartOut = NoSeries
    /\ medianIn = <<>> /\ medianOut = NoMedian
    /\ CapIdle /\ ChartIdle /\ ViewIdle

NextPartition == RunComparison

SpecPartition == InitPartition /\ [][NextPartition]_vars

\* the first instant of the month after the one of t
FirstOfNextMonth(t) == JsDate(getFullYear(t), getMonth(t) + 1, 1, 0, 0, 0)

\* the reading lies from the first instant of the oldest month of the run
\* up to the last instant of its newest (the current) month
InSpan(entry) ==
    /\ NotAfter(monthlyData[1].monthStart, entry.created)
    /\ Before(entry.created, FirstOfNextMonth(monthlyData[Len(monthlyData)].monthStart))

BucketsOf(entry) == {k \in 1..Len(monthlyData) : InBucket(entry, monthlyData[k])}

\* C25: the month buckets of one run partition the covered span: no reading
\* lies in two records, every reading of the span lies in exactly one (the
\* last second of a month included), and the totalReadings add up to the
\* number of readings of the span.
C25_MonthsPartition ==
    monthlyData # <<>> =>
        /\ \A j \in 1..Len(allData) :
               /\ Cardinality(BucketsOf(allData[j])) <= 1
               /\ InSpan(allData[j]) => Cardinality(BucketsOf(allData[j])) = 1
        /\ SumSeq([k \in 1..Len(monthlyData) |-> Q(monthlyData[k].totalReadings, 1)])
               = Q(Cardinality({j \in 1..Len(allData) : InSpan(allData[j])}), 1)


\* ---------------------------------------------------------------------
\* The dashboard's three polling views together: the capacity card (mount,
\* 30-minute timer, Refresh) and the power and temperature charts of a site
\* (mount, 60-second timer, Retry).  setInterval keeps firing, so a fetch
\* that can start is started in the end.
InitTimers == CapIdle /\ ChartIdle /\ MacroIdle /\ ViewsMounted /\ budget = MaxTimerFetches

NextTimers ==
    \/ FetchCapacity
    \/ \E req \in requests, body \in CapacityBodies : CapacityResponds(req, body)
    \/ \E req \in requests, err \in Rejections : CapacityRejects(req, err)
    \/ FetchPower
    \/ \E req \in requests, body \in ChartBodies : PowerResponds(req, body)
    \/ \E req \in requests, err \in Rejections : PowerRejects(req, err)
    \/ FetchTemp
    \/ \E req \in requests, body \in ChartBodies : TempResponds(req, body)
    \/ \E req \in requests, err \in Rejections : TempRejects(req, err)
    \/ PowerGroupEffect
    \/ TempGroupEffect

SpecTimers ==
    /\ InitTimers /\ [][NextTimers]_vars
    /\ WF_vars(FetchCapacity) /\ WF_vars(FetchPower) /\ WF_vars(FetchTemp)

PolledViews == {"capacity", "power", "temperature"}

ErrorOf(f) == CASE f = "capacity" -> cError [] f = "power" -> pError [] OTHER -> tError
DataOf(f) == CASE f = "capacity" -> cData [] f = "power" -> pData [] OTHER -> tData

LastAnswer(f) == log[f][Len(log[f])]

\* C21: while the latest answer a polled view has received is the success of
\* a fetch started after a failure, the view shows no error and holds the
\* data of that answer.
C21_RetryClears ==
    \A f \in PolledViews :
        (log[f] # <<>> /\ LastAnswer(f).how = "ok" /\ LastAnswer(f).retry)
            => ErrorOf(f) = NoMsg /\ DataOf(f) = LastAnswer(f).body

\* C21, the parts that hold: a failure sends no request of its own, and an
\* error on show is cleared in the end by a later fetch of the view, as
\* long as the view's timer still has a fetch to start.
C21_NoImmediateRetry ==
    [][\A f \in PolledViews : log'[f] # log[f] => requests' \subseteq requests]_vars

C21_ErrorEventuallyCleared ==
    \A f \in PolledViews : Truthy(ErrorOf(f)) ~> (~Truthy(ErrorOf(f)) \/ issued = budget)

\* C21, what the code keeps instead: an error is on show exactly when a
\* fetch of the view has failed and the view has started none since.
C21_ErrorSinceLastStart ==
    \A f \in PolledViews :
        Truthy(ErrorOf(f)) <=>
            \E i \in 1..Len(log[f]) : log[f][i].how = "failed" /\ log[f][i].at = Sent(f)

\* the bodies of the answers applied to the view so far, in arrival order
Applied(f) == SelectSeq(log[f], LAMBDA e : e.how = "ok")

LocationsIn(data) == {data[i].location : i \in 1..Len(data)}

\* C23: the series and the line configuration a chart shows come from one
\* and the same response (or both from the empty data of the mount), and
\* the configuration's keys are the locations of that response.
C23_OneSnapshot ==
    /\ \E i \in 0..Len(Applied("power")) :
           LET d == IF i = 0 THEN <<>> ELSE Applied("power")[i].body
           IN pFiltered = PowerGrouped(d) /\ pConfig = LocationsIn(d)
    /\ \E i \in 0..Len(Applied("temperature")) :
           LET d == IF i = 0 THEN <<>> ELSE Applied("temperature")[i].body
           IN /\ tFiltered = Averaged(TempGrouped(d), LocationsIn(d))
              /\ tConfig = LocationsIn(d)

\* a second answer with other locations has replaced the first on the chart
C23_Witness ==
    /\ Len(Applied("power")) = 2
    /\ LocationsIn(Applied("power")[1].body) # LocationsIn(Applied("power")[2].body)
    /\ pData = Applied("power")[2].body
    /\ pFiltered = PowerGrouped(pData) /\ pConfig = {"rack1", "rack2"}

\* C24: a polled view holds the data of the answer that arrived last,
\* whichever request it answers.
C24_ArrivalOrder ==
    \A f \in PolledViews :
        Applied(f) # <<>> => DataOf(f) = Applied(f)[Len(Applied(f))].body

\* the answer to the older of two requests arrived after the answer to the
\* newer one, and the view holds the older request's data
C24_Witness ==
    \E f \in PolledViews :
        /\ Len(Applied(f)) = 2
        /\ Applied(f)[1].seq > Applied(f)[2].seq
        /\ DataOf(f) = Applied(f)[2].body
        /\ DataOf(f) # Applied(f)[1].body


\* ---------------------------------------------------------------------
\* Claims about the views side by side (SpecViews)

\* the state of each view instance: its data, derived series, error and
\* loading flags
CardState == <<cData, cLoading, cError, historyLoading, isHistoryOpen, historyData>>
PowerState == <<pData, pFiltered, pConfig, pError>>
TempState == <<tData, tGrouped, tFiltered, tConfig, tError>>
MacroState == <<selectedMonths, allData, monthlyData, mLoading, mError>>
ScanState == <<scanning, scanResult, scanError, nmapAvailable>>
ViewStates == <<CardState, PowerState, TempState, MacroState, ScanState>>

\* C22: no step (a fetch start, an answer, a failure, an effect) changes
\* the state of more than one view instance.
C22_NoSharedState ==
    [][Cardinality({i \in 1..Len(ViewStates) : ViewStates'[i] # ViewStates[i]}) <= 1]_vars

\* the capacity fetch has failed and the power fetch has succeeded, each
\* view showing its own outcome
C22_Witness ==
    /\ outcome["capacity"] = "failed" /\ Truthy(cError) /\ cData = NoSnapshot
    /\ outcome["power"] = "ok" /\ pError = NoMsg /\ pData # <<>>
    /\ pFiltered = PowerGrouped(pData)

\* the step settles a request of the view as failed
FailedStep(f) ==
    /\ Len(log'[f]) = Len(log[f]) + 1
    /\ log'[f][Len(log'[f])].how = "failed"

====
